---- MODULE Spec2Model ----
(***************************************************************************)
(* Model of the async control plane of the ChatMock test bench:            *)
(* AsyncQueueManager (services/async/queueManager.js) with its             *)
(* collaborators classifyError (errorCodes.js), buildStructuredEnvelope    *)
(* (envelopeBuilder.js), MetricsStore and the upstream ChatMockClient.     *)
(*                                                                         *)
(* Every action is one event-loop callback of the Node.js process: a       *)
(* public method call, a setImmediate/setTimeout callback, or the          *)
(* continuation of the awaited upstream call.  Time is the value of        *)
(* Date.now() in milliseconds.  A job id `job-<ms>-<seq>` is represented   *)
(* by its <seq> component, which alone makes it unique.                    *)
(***************************************************************************)
EXTENDS Integers, Sequences, FiniteSets, Bags, TLC

\* ---------------------------------------------------------------- bounds
MaxJobs == 2            \* submissions that are admitted in one behaviour
MaxTicks == 1           \* number of clock advances in one behaviour
TickMs == 1000          \* milliseconds the clock advances per step
MaxInFlightCfg == 2     \* largest maxInFlight option tried
MaxQueueDepthCfg == 2   \* largest maxQueueDepth option tried
MaxWaiters == 2         \* waitForCompletion calls when the waiters are observed
MaxWaitedJobs == 1      \* jobs submitted when the waiters are observed
MaxDrainTimers == 2     \* cooldown timers pending at once in a run without an end
MaxCallers == 1         \* waitForCompletion / runInlineJob calls in one behaviour
MaxTimeoutMs == 1       \* largest timeoutMs argument tried
MaxDeadlineSteps == 2   \* deadlines and clock values tried for the state resolver: 0..2 ticks
MaxRuns == 2            \* replay runs in one behaviour
CfgMaxAttempts == 2     \* retryPolicy.maxAttempts option of the run
CfgBaseDelayMs == 1000  \* retryPolicy.baseDelayMs option of the run
CfgMaxDelayMs == 1500   \* retryPolicy.maxDelayMs option of the run
CfgAuthRequiredMs == 2000   \* cooldowns.authRequiredMs option of the run
CfgChallengeMs == 500       \* cooldowns.challengeMs option (below the floor)
CfgRateLimitedMs == 1000    \* cooldowns.rateLimitedMs option of the run
CfgDegradedMs == 1500       \* cooldowns.degradedMs option of the run

\* ------------------------------------------------------ program constants
DefaultMaxInFlight == 1
DefaultMaxQueueDepth == 100
DefaultMaxAttempts == 2
DefaultBaseDelayMs == 1500
DefaultMaxDelayMs == 45000
MinMaxDelayMs == 100
DefaultAuthRequiredMs == 300000
DefaultChallengeMs == 90000
DefaultRateLimitedMs == 45000
DefaultDegradedMs == 15000
CooldownFloorMs == 1000
MinDrainWaitMs == 50

FINAL_STATUSES == {"completed", "failed", "cancelled"}
PRIORITIES == <<"interactive", "retry", "batch">>

Max(a, b) == IF a >= b THEN a ELSE b
Min(a, b) == IF a <= b THEN a ELSE b

RECURSIVE Pow2(_)
Pow2(n) == IF n <= 0 THEN 1 ELSE 2 * Pow2(n - 1)

\* `Number(x) || d`: an option that is absent, NaN or 0 (all written 0 here)
\* falls back to the default d.
NumberOr(x, d) == IF x = 0 THEN d ELSE x

\* toPriority: String(value || "").trim().toLowerCase(), kept when it is one
\* of PRIORITIES, otherwise "batch".  The inputs are the request's priority
\* texts below; Normalized gives the trimmed, lower-cased text of each.
PriorityInputs == {"interactive", "retry", "batch", " Interactive ", "RETRY", "urgent", ""}

Normalized(value) ==
    CASE value = " Interactive " -> "interactive"
      [] value = "RETRY" -> "retry"
      [] OTHER -> value

toPriority(value) ==
    IF \E i \in 1..Len(PRIORITIES) : PRIORITIES[i] = Normalized(value)
    THEN Normalized(value)
    ELSE "batch"

\* ------------------------------------------------------------ error codes
\* An error thrown by the upstream client: its name, HTTP status (0 when it
\* carries none), upstream code and the markers found in its message.
ErrorInputs ==
    { [name |-> "TimeoutError",  statusCode |-> 0,   code |-> "",               msg |-> "timed out"],
      [name |-> "UpstreamError", statusCode |-> 401, code |-> "LOGIN_REQUIRED", msg |-> "login required"],
      [name |-> "UpstreamError", statusCode |-> 429, code |-> "UPSTREAM_ERROR", msg |-> "http"],
      [name |-> "UpstreamError", statusCode |-> 503, code |-> "UPSTREAM_ERROR", msg |-> "challenge"],
      [name |-> "UpstreamError", statusCode |-> 502, code |-> "UPSTREAM_ERROR", msg |-> "unable to reach"],
      [name |-> "UpstreamError", statusCode |-> 404, code |-> "UPSTREAM_ERROR", msg |-> "http"],
      [name |-> "TypeError",     statusCode |-> 0,   code |-> "",               msg |-> "terminated"] }

\* The errors classifyError is examined on: every combination of these names,
\* HTTP statuses (0: none), upstream codes and message texts.
ClassifyNames == {"TimeoutError", "UpstreamError", "Error"}
ClassifyStatusCodes == {0, 302, 400, 401, 404, 429, 499, 500, 503, 599, 600}
ClassifyCodes == {"", "UPSTREAM_ERROR", "LOGIN_REQUIRED", "login_required"}
ClassifyMessages ==
    {"", "http", "timed out", "Rate limit exceeded", "Just a moment...",
     "Challenge required", "Verify you are human",
     "Rate limit: complete the challenge"}
ClassifyInputs ==
    [name : ClassifyNames, statusCode : ClassifyStatusCodes,
     code : ClassifyCodes, msg : ClassifyMessages]

\* String(error.message || "").toLowerCase() on the message texts in use: the
\* texts not listed have no upper-case letter.
toLowerCase(text) ==
    CASE text = "Rate limit exceeded" -> "rate limit exceeded"
      [] text = "Just a moment..." -> "just a moment..."
      [] text = "Challenge required" -> "challenge required"
      [] text = "Verify you are human" -> "verify you are human"
      [] text = "Rate limit: complete the challenge" -> "rate limit: complete the challenge"
      [] OTHER -> text

\* String(error.code || "").toUpperCase() on the codes in use.
toUpperCase(text) ==
    CASE text = "login_required" -> "LOGIN_REQUIRED"
      [] OTHER -> text

\* msg.includes(marker) on the lower-cased texts in use.
MsgHasRateLimit(msg) ==
    msg \in {"rate limit", "rate limit exceeded", "rate limit: complete the challenge"}
MsgHasChallenge(msg) ==
    msg \in {"just a moment", "just a moment...", "challenge", "challenge required",
             "verify you are human", "rate limit: complete the challenge"}

classifyError(error) ==
    LET msg == toLowerCase(error.msg)
        upstreamCode == toUpperCase(error.code)
    IN
    IF error.name = "TimeoutError"
    THEN [code |-> "UPSTREAM_TIMEOUT", status |-> 504, retryable |-> TRUE]
    ELSE IF error.statusCode = 401 \/ upstreamCode = "LOGIN_REQUIRED"
    THEN [code |-> "UPSTREAM_LOGIN_REQUIRED", status |-> 401, retryable |-> FALSE]
    ELSE IF error.statusCode = 429 \/ MsgHasRateLimit(msg)
    THEN [code |-> "UPSTREAM_RATE_LIMITED", status |-> 429, retryable |-> TRUE]
    ELSE IF MsgHasChallenge(msg)
    THEN [code |-> "UPSTREAM_CHALLENGE", status |-> 503, retryable |-> TRUE]
    ELSE IF error.statusCode >= 500 /\ error.statusCode < 600
    THEN [code |-> "UPSTREAM_UNAVAILABLE", status |-> 503, retryable |-> TRUE]
    ELSE IF error.statusCode >= 400
    THEN [code |-> "UPSTREAM_BAD_RESPONSE", status |-> 424, retryable |-> FALSE]
    ELSE [code |-> "INTERNAL_ERROR", status |-> 500, retryable |-> FALSE]

\* ---------------------------------------------------------------- state
VARIABLES
    maxInFlight,    \* this.maxInFlight
    maxQueueDepth,  \* this.maxQueueDepth
    now,            \* Date.now()
    signals,        \* this.signals: the four "until" deadlines
    lanes,          \* this.lanes: priority -> sequence of job ids
    running,        \* this.running: ids with an outstanding upstream call
    jobs,           \* this.jobs: job id -> job object (index = id)
    results,        \* this.results: job id -> envelope
    jobSeq,         \* this.jobSeq
    drainScheduled, \* this.drainScheduled (a setImmediate is pending)
    retryTimers,    \* pending retry setTimeout per job: id -> due time
    drainTimers,    \* pending cooldown setTimeout callbacks: bag of due times
    totals,         \* MetricsStore totals
    calls,          \* per job: number of client.chatCompletions calls made for it
    waiterTimers,   \* pending waiter setTimeout per caller: caller -> due time
    callers,        \* promises returned by waitForCompletion / runInlineJob
    finalEvents,    \* per job: number of "job.final" events emitted for it
    probe           \* what lies outside the queue manager: the call of a pure
                    \* function that is examined (argument and result), or the
                    \* reports directory and last report of the replay harness

vars == <<maxInFlight, maxQueueDepth, now, signals, lanes, running, jobs, results,
          jobSeq, drainScheduled, retryTimers, drainTimers, totals, calls,
          waiterTimers, callers, finalEvents, probe>>

\* The retry policy the constructor derives from the retryPolicy options.
retryPolicyOf(options) ==
    [maxAttempts |-> Max(1, NumberOr(options.maxAttempts, DefaultMaxAttempts)),
     baseDelayMs |-> Max(0, NumberOr(options.baseDelayMs, DefaultBaseDelayMs)),
     maxDelayMs  |-> Max(MinMaxDelayMs, NumberOr(options.maxDelayMs, DefaultMaxDelayMs))]

retryPolicy ==
    retryPolicyOf([maxAttempts |-> CfgMaxAttempts, baseDelayMs |-> CfgBaseDelayMs,
                   maxDelayMs |-> CfgMaxDelayMs])

\* Fault-injected variant: the durations are taken without their floor.
cooldownsNoFloor ==
    [authRequiredMs |-> NumberOr(CfgAuthRequiredMs, DefaultAuthRequiredMs),
     challengeMs    |-> NumberOr(CfgChallengeMs, DefaultChallengeMs),
     rateLimitedMs  |-> NumberOr(CfgRateLimitedMs, DefaultRateLimitedMs),
     degradedMs     |-> NumberOr(CfgDegradedMs, DefaultDegradedMs)]

cooldowns ==
    [authRequiredMs |-> Max(CooldownFloorMs, NumberOr(CfgAuthRequiredMs, DefaultAuthRequiredMs)),
     challengeMs    |-> Max(CooldownFloorMs, NumberOr(CfgChallengeMs, DefaultChallengeMs)),
     rateLimitedMs  |-> Max(CooldownFloorMs, NumberOr(CfgRateLimitedMs, DefaultRateLimitedMs)),
     degradedMs     |-> Max(CooldownFloorMs, NumberOr(CfgDegradedMs, DefaultDegradedMs))]

\* The queue manager after its constructor.
Constructed ==
    /\ \E raw \in 0..MaxInFlightCfg :
          maxInFlight = Max(1, NumberOr(raw, DefaultMaxInFlight))
    /\ \E raw \in 1..MaxQueueDepthCfg :
          maxQueueDepth = Max(1, NumberOr(raw, DefaultMaxQueueDepth))
    /\ now = 0
    /\ signals = [auth_required_until |-> 0, challenge_until |-> 0,
                  rate_limited_until |-> 0, degraded_until |-> 0]
    /\ lanes = [interactive |-> <<>>, retry |-> <<>>, batch |-> <<>>]
    /\ running = {}
    /\ jobs = <<>>
    /\ results = <<>>
    /\ jobSeq = 0
    /\ drainScheduled = FALSE
    /\ retryTimers = <<>>
    /\ drainTimers = EmptyBag
    /\ totals = [submitted |-> 0, completed |-> 0, failed |-> 0, cancelled |-> 0]
    /\ calls = <<>>
    /\ waiterTimers = <<>>
    /\ callers = <<>>
    /\ finalEvents = <<>>

\* The control plane as it serves requests: no function is examined apart from
\* the queue and no replay harness is attached.
Init ==
    /\ Constructed
    /\ probe = [fn |-> "none"]

\* ------------------------------------------------------ request inputs
\* request.payload as submit inspects it: whether it is present (truthy),
\* whether typeof is "object", whether payload.model is truthy and whether
\* payload.messages is an array.
PayloadInputs ==
    { [present |-> FALSE, isObject |-> FALSE, hasModel |-> FALSE, messagesIsArray |-> FALSE],
      [present |-> TRUE,  isObject |-> FALSE, hasModel |-> FALSE, messagesIsArray |-> FALSE],
      [present |-> TRUE,  isObject |-> TRUE,  hasModel |-> FALSE, messagesIsArray |-> TRUE],
      [present |-> TRUE,  isObject |-> TRUE,  hasModel |-> TRUE,  messagesIsArray |-> FALSE],
      [present |-> TRUE,  isObject |-> TRUE,  hasModel |-> TRUE,  messagesIsArray |-> TRUE] }

ValidPayload ==
    [present |-> TRUE, isObject |-> TRUE, hasModel |-> TRUE, messagesIsArray |-> TRUE]

\* Every priority text with a well-formed payload, every payload with "batch".
Requests ==
    {[payload |-> ValidPayload, priority |-> q] : q \in PriorityInputs}
    \cup {[payload |-> p, priority |-> "batch"] : p \in PayloadInputs}

\* The two INVALID_REQUEST tests at the head of submit.
payloadInvalid(payload) ==
    \/ ~payload.present
    \/ ~payload.isObject
    \/ ~payload.hasModel
    \/ ~payload.messagesIsArray

\* ------------------------------------------------------------- helpers
NoError == [code |-> "none", status |-> 0, retryable |-> FALSE]

buildStructuredEnvelope(jobId, status, error, attempts) ==
    [job_id |-> jobId, status |-> status, error |-> error, attempts |-> attempts]

JobCancelledError == [code |-> "JOB_CANCELLED", status |-> 409, retryable |-> FALSE]

\* Fault-injected variant: the lanes are left as they are.
removeFromLanesNone(ls, jobId) == ls

removeFromLanes(ls, jobId) ==
    [p \in DOMAIN ls |-> SelectSeq(ls[p], LAMBDA x : x # jobId)]

\* Fault-injected variant: the id is put at the front of the lane.
lanePushFront(lane, jobId) == <<jobId>> \o lane

\* this.lanes[priority].push(jobId)
lanePush(lane, jobId) == Append(lane, jobId)

\* Fault-injected variant: the last id of the lane is taken (pop).
lanePop(lane) == [id |-> lane[Len(lane)], rest |-> SubSeq(lane, 1, Len(lane) - 1)]

\* this.lanes[lane].shift(): the id it returns and the lane it leaves.
laneShift(lane) == [id |-> Head(lane), rest |-> Tail(lane)]

\* Fault-injected variant: the depth counts the lanes only.
totalDepthLanesOnly(r, ls) ==
    Len(ls.interactive) + Len(ls.retry) + Len(ls.batch)

totalDepth(r, ls) ==
    Cardinality(r) + Len(ls.interactive) + Len(ls.retry) + Len(ls.batch)

\* Fault-injected variant: the lanes are scanned batch first.
pickNextLaneBatchFirst(ls) ==
    IF Len(ls.batch) > 0 THEN "batch"
    ELSE IF Len(ls.retry) > 0 THEN "retry"
    ELSE IF Len(ls.interactive) > 0 THEN "interactive"
    ELSE "none"

\* #pickNextJobId: the lane it shifts from, "none" when all lanes are empty.
pickNextLane(ls) ==
    IF \E i \in 1..Len(PRIORITIES) : Len(ls[PRIORITIES[i]]) > 0
    THEN PRIORITIES[CHOOSE i \in 1..Len(PRIORITIES) :
                       /\ Len(ls[PRIORITIES[i]]) > 0
                       /\ \A k \in 1..(i - 1) : Len(ls[PRIORITIES[k]]) = 0]
    ELSE "none"

\* Fault-injected variant: the degraded deadline is left out of the gate.
cooldownUntilNoDegraded(sig) ==
    Max(Max(sig.auth_required_until, sig.challenge_until), sig.rate_limited_until)

cooldownUntil(sig) ==
    Max(Max(sig.auth_required_until, sig.challenge_until),
        Max(sig.rate_limited_until, sig.degraded_until))

\* Fault-injected variant: the loop admits one job more than the budget.
hasCapacityInclusive(r, limit) == Cardinality(r) <= limit

\* The loop condition of #drain.
hasCapacity(r, limit) == Cardinality(r) < limit

\* Fault-injected variant: the job is not put into the running set.
startJobNotRunning(st, id) ==
    [st EXCEPT !.jobs[id].status = "running",
               !.jobs[id].attempts = @ + 1,
               !.calls[id] = @ + 1,
               !.log = Append(@, id)]

\* Fault-injected variant: attempts is set to 1 instead of incremented.
startJobResetAttempts(st, id) ==
    [st EXCEPT !.jobs[id].status = "running",
               !.jobs[id].attempts = 1,
               !.running = @ \cup {id},
               !.calls[id] = @ + 1,
               !.log = Append(@, id)]

\* #startJob up to the await: the job record, the running set and the
\* upstream call it makes.  st is [lanes, jobs, running, calls, log], log being
\* the ids this drain has passed to client.chatCompletions so far, in order.
startJob(st, id) ==
    [st EXCEPT !.jobs[id].status = "running",
               !.jobs[id].attempts = @ + 1,
               !.running = @ \cup {id},
               !.calls[id] = @ + 1,
               !.log = Append(@, id)]

\* The while loop of #drain.
RECURSIVE drainLoop(_)
drainLoop(st) ==
    IF ~hasCapacity(st.running, maxInFlight) THEN st
    ELSE LET lane == pickNextLane(st.lanes) IN
         IF lane = "none" THEN st
         ELSE LET nextId == laneShift(st.lanes[lane]).id
                  shifted == [st EXCEPT !.lanes[lane] = laneShift(@).rest]
              IN  IF nextId \notin DOMAIN st.jobs \/ st.jobs[nextId].status \in FINAL_STATUSES
                  THEN drainLoop(shifted)
                  ELSE drainLoop(startJob(shifted, nextId))

\* Fault-injected variant: every classified error also sets the degraded
\* deadline.
applySignalAlsoDegraded(sig, errorCode, t) ==
    IF errorCode = "UPSTREAM_LOGIN_REQUIRED"
    THEN [sig EXCEPT !.auth_required_until = t + cooldowns.authRequiredMs,
                     !.degraded_until = t + cooldowns.degradedMs]
    ELSE IF errorCode = "UPSTREAM_CHALLENGE"
    THEN [sig EXCEPT !.challenge_until = t + cooldowns.challengeMs,
                     !.degraded_until = t + cooldowns.degradedMs]
    ELSE IF errorCode = "UPSTREAM_RATE_LIMITED"
    THEN [sig EXCEPT !.rate_limited_until = t + cooldowns.rateLimitedMs,
                     !.degraded_until = t + cooldowns.degradedMs]
    ELSE [sig EXCEPT !.degraded_until = t + cooldowns.degradedMs]

\* Fault-injected variant: a new signal clears the three other deadlines.
applySignalClearsOthers(sig, errorCode, t) ==
    LET clear == [auth_required_until |-> 0, challenge_until |-> 0,
                  rate_limited_until |-> 0, degraded_until |-> 0]
    IN
    IF errorCode = "UPSTREAM_LOGIN_REQUIRED"
    THEN [clear EXCEPT !.auth_required_until = t + cooldowns.authRequiredMs]
    ELSE IF errorCode = "UPSTREAM_CHALLENGE"
    THEN [clear EXCEPT !.challenge_until = t + cooldowns.challengeMs]
    ELSE IF errorCode = "UPSTREAM_RATE_LIMITED"
    THEN [clear EXCEPT !.rate_limited_until = t + cooldowns.rateLimitedMs]
    ELSE IF errorCode = "UPSTREAM_UNAVAILABLE"
    THEN [clear EXCEPT !.degraded_until = t + cooldowns.degradedMs]
    ELSE sig

applySignal(sig, errorCode, t) ==
    IF errorCode = "UPSTREAM_LOGIN_REQUIRED"
    THEN [sig EXCEPT !.auth_required_until = t + cooldowns.authRequiredMs]
    ELSE IF errorCode = "UPSTREAM_CHALLENGE"
    THEN [sig EXCEPT !.challenge_until = t + cooldowns.challengeMs]
    ELSE IF errorCode = "UPSTREAM_RATE_LIMITED"
    THEN [sig EXCEPT !.rate_limited_until = t + cooldowns.rateLimitedMs]
    ELSE IF errorCode = "UPSTREAM_UNAVAILABLE"
    THEN [sig EXCEPT !.degraded_until = t + cooldowns.degradedMs]
    ELSE sig

\* Fault-injected variant: the classification is not consulted.
shouldRetryAnyClass(job, classified) ==
    /\ ~job.cancelRequested
    /\ job.attempts < retryPolicy.maxAttempts

\* Fault-injected variant: the attempts bound is not tested.
shouldRetryUnbounded(job, classified) ==
    /\ classified.retryable
    /\ ~job.cancelRequested

shouldRetry(job, classified) ==
    /\ classified.retryable
    /\ ~job.cancelRequested
    /\ job.attempts < retryPolicy.maxAttempts

\* Fault-injected variant: the cancel request is not looked at first.
failureBranchNoCancel(job, classified) ==
    IF shouldRetry(job, classified) THEN "retrying"
    ELSE "failed"

\* Which branch the catch block of #startJob takes.
failureBranch(job, classified) ==
    IF job.cancelRequested THEN "cancelled"
    ELSE IF shouldRetry(job, classified) THEN "retrying"
    ELSE "failed"

\* Fault-injected variant: the delay is not capped.
delayOfUncapped(policy, attempts) ==
    policy.baseDelayMs * Pow2(Max(0, attempts - 1))

\* The delay of the retry timer under a policy, after `attempts` attempts.
delayOf(policy, attempts) ==
    Min(policy.maxDelayMs, policy.baseDelayMs * Pow2(Max(0, attempts - 1)))

retryDelay(attempts) == delayOf(retryPolicy, attempts)

\* Fault-injected variant: the result cache is not consulted.
alreadyFinalNever(res, jobId) == FALSE

\* cancel's test that the job is already in the result cache.
alreadyFinal(res, jobId) == jobId \in DOMAIN res

WithoutKey(f, k) == [x \in DOMAIN f \ {k} |-> f[x]]

\* Fault-injected variant: the job's status is not set.
finalizeJobsKeepStatus(js, envelope) == js

\* #finalize: the job's status and the result cache after it.
finalizeJobs(js, envelope) ==
    [js EXCEPT ![envelope.job_id].status = envelope.status,
               ![envelope.job_id].waiters = <<>>]
finalizeResults(res, envelope) == (envelope.job_id :> envelope) @@ res

\* this.emit("job.final", envelope) at the end of #finalize.
finalizeEvents(ev, envelope) == [ev EXCEPT ![envelope.job_id] = @ + 1]

\* #finalize calls every waiter of the job: it clears its timer and resolves
\* its promise, which has no effect on a promise that is settled already.
Waiting(job) == {job.waiters[i] : i \in 1..Len(job.waiters)}
finalizeWaiterTimers(timers, job) ==
    [c \in DOMAIN timers \ Waiting(job) |-> timers[c]]
finalizeCallers(cs, job, envelope) ==
    [c \in DOMAIN cs |->
        IF c \in Waiting(job) /\ cs[c].outcome = "pending"
        THEN [outcome |-> "resolved", value |-> envelope.status]
        ELSE cs[c]]

\* What a run that observes the waiters sees: the waiter functions pushed,
\* in the order of the push, and the calls #finalize makes, in the order of
\* the calls with the envelope passed.  A run that does not observe them
\* (probe.fn is not "waiters") keeps no such record.
observeRegistered(pr, c, jobId) ==
    IF pr.fn # "waiters" THEN pr
    ELSE [pr EXCEPT !.registered = Append(@, [waiter |-> c, job_id |-> jobId])]
observeInvoked(pr, job, envelope) ==
    IF pr.fn # "waiters" THEN pr
    ELSE [pr EXCEPT !.invoked = @ \o [i \in 1..Len(job.waiters) |->
                                         [waiter |-> job.waiters[i],
                                          envelope |-> envelope]]]

\* MetricsStore: the four totals.
recordSubmitted(t) == [t EXCEPT !.submitted = @ + 1]
recordCompleted(t) == [t EXCEPT !.completed = @ + 1]
recordFailed(t) == [t EXCEPT !.failed = @ + 1]

\* Fault-injected variant: a cancellation is not counted.
recordCancelledNone(t) == t

recordCancelled(t) == [t EXCEPT !.cancelled = @ + 1]

\* --------------------------------------------------------------- actions
\* Fault-injected variant: the depth is tested before the payload.
submitBranchBackpressureFirst(request) ==
    IF totalDepth(running, lanes) >= maxQueueDepth THEN "QUEUE_BACKPRESSURE"
    ELSE IF payloadInvalid(request.payload) THEN "INVALID_REQUEST"
    ELSE "admitted"

\* Fault-injected variant: submit rejects while a cooldown is active.
submitBranchCooldown(request) ==
    IF payloadInvalid(request.payload) THEN "INVALID_REQUEST"
    ELSE IF totalDepth(running, lanes) >= maxQueueDepth THEN "QUEUE_BACKPRESSURE"
    ELSE IF cooldownUntil(signals) > now THEN "QUEUE_COOLDOWN_ACTIVE"
    ELSE "admitted"

\* The if-chain at the head of submit: which exit it takes.
submitBranch(request) ==
    IF payloadInvalid(request.payload) THEN "INVALID_REQUEST"
    ELSE IF totalDepth(running, lanes) >= maxQueueDepth THEN "QUEUE_BACKPRESSURE"
    ELSE "admitted"

\* What submit(request) throws or returns in the current state.
submitResult(request) ==
    IF submitBranch(request) = "admitted"
    THEN [threw |-> "none", job_id |-> jobSeq + 1, status |-> "queued"]
    ELSE [threw |-> submitBranch(request)]

\* Fault-injected variant: the job is created as started.
newJobStarted(jobId, priority) ==
    [job_id |-> jobId, priority |-> priority, status |-> "running",
     attempts |-> 1, waiters |-> <<>>, cancelRequested |-> FALSE]

\* The job object submit creates.
newJob(jobId, priority) ==
    [job_id |-> jobId, priority |-> priority, status |-> "queued",
     attempts |-> 0, waiters |-> <<>>, cancelRequested |-> FALSE]

\* submit(request)
Submit(request) ==
    IF submitBranch(request) # "admitted"
    THEN UNCHANGED vars
    ELSE /\ jobSeq < MaxJobs
         /\ LET priority == toPriority(request.priority)
                jobId == jobSeq + 1
                job == newJob(jobId, priority)
            IN  /\ jobSeq' = jobId
                /\ jobs' = Append(jobs, job)
                /\ lanes' = [lanes EXCEPT ![priority] = lanePush(@, jobId)]
                /\ totals' = recordSubmitted(totals)
                /\ calls' = Append(calls, 0)
                /\ finalEvents' = Append(finalEvents, 0)
                /\ drainScheduled' = TRUE
         /\ UNCHANGED <<probe, maxInFlight, maxQueueDepth, now, signals, running, results,
                        retryTimers, drainTimers, waiterTimers, callers>>

\* Fault-injected variant: every job that is not final is treated as running.
cancelBranchAlwaysRunning(jobId) ==
    IF jobId \notin DOMAIN jobs /\ jobId \notin DOMAIN results THEN "not_found"
    ELSE IF alreadyFinal(results, jobId) THEN "already_final"
    ELSE "running"

\* Fault-injected variant: a running job whose cancel was requested before is
\* cancelled on the spot.
cancelBranchOnce(jobId) ==
    IF jobId \notin DOMAIN jobs /\ jobId \notin DOMAIN results THEN "not_found"
    ELSE IF alreadyFinal(results, jobId) THEN "already_final"
    ELSE IF jobId \in running /\ ~jobs[jobId].cancelRequested THEN "running"
    ELSE "not_running"

\* The if-chain of cancel: which exit it takes.
cancelBranch(jobId) ==
    IF jobId \notin DOMAIN jobs /\ jobId \notin DOMAIN results THEN "not_found"
    ELSE IF alreadyFinal(results, jobId) THEN "already_final"
    ELSE IF jobId \in running THEN "running"
    ELSE "not_running"

\* What cancel(jobId) returns in the current state.
cancelResult(jobId) ==
    CASE cancelBranch(jobId) = "not_found" ->
            [cancelled |-> FALSE, code |-> "JOB_NOT_FOUND"]
      [] cancelBranch(jobId) = "already_final" ->
            [cancelled |-> FALSE, code |-> "ALREADY_FINAL"]
      [] cancelBranch(jobId) = "running" ->
            [cancelled |-> TRUE, running |-> TRUE, job_id |-> jobId,
             status |-> "cancel_requested"]
      [] OTHER ->
            [cancelled |-> TRUE, running |-> FALSE, job_id |-> jobId,
             status |-> "cancelled"]

\* cancel(jobId)
Cancel(jobId) ==
    CASE cancelBranch(jobId) \in {"not_found", "already_final"} ->
            UNCHANGED vars
      [] cancelBranch(jobId) = "running" ->
            /\ jobs' = [jobs EXCEPT ![jobId].cancelRequested = TRUE]
            /\ UNCHANGED <<probe, finalEvents, maxInFlight, maxQueueDepth, now, signals, lanes, running,
                           results, jobSeq, drainScheduled, retryTimers, drainTimers,
                           totals, calls, waiterTimers, callers>>
      [] OTHER ->
            LET envelope == buildStructuredEnvelope(jobId, "cancelled", JobCancelledError,
                                                    jobs[jobId].attempts)
            IN  /\ lanes' = removeFromLanes(lanes, jobId)
                /\ totals' = recordCancelled(totals)
                /\ jobs' = finalizeJobs(jobs, envelope)
                /\ results' = finalizeResults(results, envelope)
                /\ waiterTimers' = finalizeWaiterTimers(waiterTimers, jobs[jobId])
                /\ callers' = finalizeCallers(callers, jobs[jobId], envelope)
                /\ finalEvents' = finalizeEvents(finalEvents, envelope)
                /\ probe' = observeInvoked(probe, jobs[jobId], envelope)
                /\ UNCHANGED <<maxInFlight, maxQueueDepth, now, signals, running, jobSeq,
                               drainScheduled, retryTimers, drainTimers, calls>>

\* The setImmediate callback of #scheduleDrain followed by #drain.
DrainTick ==
    /\ drainScheduled
    /\ drainScheduled' = FALSE
    /\ IF cooldownUntil(signals) > now
       THEN /\ drainTimers' = drainTimers (+)
                   SetToBag({now + Max(MinDrainWaitMs, cooldownUntil(signals) - now)})
            /\ UNCHANGED <<lanes, jobs, running, calls>>
       ELSE LET st == drainLoop([lanes |-> lanes, jobs |-> jobs, running |-> running,
                                 calls |-> calls, log |-> <<>>])
            IN  /\ lanes' = st.lanes
                /\ jobs' = st.jobs
                /\ running' = st.running
                /\ calls' = st.calls
                /\ UNCHANGED drainTimers
    /\ UNCHANGED <<probe, finalEvents, maxInFlight, maxQueueDepth, now, signals, results, jobSeq,
                   retryTimers, totals, waiterTimers, callers>>

\* The cooldown setTimeout callback set by #drain: it calls #scheduleDrain.
DrainTimerFire(due) ==
    /\ BagIn(due, drainTimers)
    /\ due <= now
    /\ drainTimers' = drainTimers (-) SetToBag({due})
    /\ drainScheduled' = TRUE
    /\ UNCHANGED <<probe, finalEvents, maxInFlight, maxQueueDepth, now, signals, lanes, running, jobs,
                   results, jobSeq, retryTimers, totals, calls, waiterTimers, callers>>

\* Fault-injected variant: the finally block does not schedule a drain.
UpstreamReturnNoDrain(id) ==
    /\ id \in running
    /\ LET envelope == buildStructuredEnvelope(id, "completed", NoError, jobs[id].attempts)
       IN  /\ totals' = recordCompleted(totals)
           /\ jobs' = finalizeJobs(jobs, envelope)
           /\ results' = finalizeResults(results, envelope)
           /\ waiterTimers' = finalizeWaiterTimers(waiterTimers, jobs[id])
           /\ callers' = finalizeCallers(callers, jobs[id], envelope)
           /\ finalEvents' = finalizeEvents(finalEvents, envelope)
           /\ probe' = observeInvoked(probe, jobs[id], envelope)
    /\ running' = running \ {id}
    /\ UNCHANGED <<maxInFlight, maxQueueDepth, now, signals, lanes, jobSeq,
                   retryTimers, drainTimers, calls, drainScheduled>>

\* client.chatCompletions resolves: the try block of run and its finally.
UpstreamReturn(id) ==
    /\ id \in running
    /\ LET envelope == buildStructuredEnvelope(id, "completed", NoError, jobs[id].attempts)
       IN  /\ totals' = recordCompleted(totals)
           /\ jobs' = finalizeJobs(jobs, envelope)
           /\ results' = finalizeResults(results, envelope)
           /\ waiterTimers' = finalizeWaiterTimers(waiterTimers, jobs[id])
           /\ callers' = finalizeCallers(callers, jobs[id], envelope)
           /\ finalEvents' = finalizeEvents(finalEvents, envelope)
           /\ probe' = observeInvoked(probe, jobs[id], envelope)
    /\ running' = running \ {id}
    /\ drainScheduled' = TRUE
    /\ UNCHANGED <<maxInFlight, maxQueueDepth, now, signals, lanes, jobSeq,
                   retryTimers, drainTimers, calls>>

\* client.chatCompletions rejects: the catch block of run and its finally.
UpstreamThrow(id, error) ==
    /\ id \in running
    /\ LET job == jobs[id]
           classified == classifyError(error)
           branch == failureBranch(job, classified)
       IN  /\ signals' = applySignal(signals, classified.code, now)
           /\ IF branch = "cancelled"
              THEN LET envelope == buildStructuredEnvelope(id, "cancelled",
                                                           JobCancelledError, job.attempts)
                   IN  /\ totals' = recordCancelled(totals)
                       /\ jobs' = finalizeJobs(jobs, envelope)
                       /\ results' = finalizeResults(results, envelope)
                       /\ waiterTimers' = finalizeWaiterTimers(waiterTimers, job)
                       /\ callers' = finalizeCallers(callers, job, envelope)
                       /\ finalEvents' = finalizeEvents(finalEvents, envelope)
                       /\ probe' = observeInvoked(probe, job, envelope)
                       /\ UNCHANGED retryTimers
              ELSE IF branch = "retrying"
              THEN /\ jobs' = [jobs EXCEPT ![id].status = "retrying"]
                   /\ retryTimers' = (id :> (now + retryDelay(job.attempts))) @@ retryTimers
                   /\ UNCHANGED <<totals, results, waiterTimers, callers, finalEvents, probe>>
              ELSE LET envelope == buildStructuredEnvelope(id, "failed", classified,
                                                           job.attempts)
                   IN  /\ totals' = recordFailed(totals)
                       /\ jobs' = finalizeJobs(jobs, envelope)
                       /\ results' = finalizeResults(results, envelope)
                       /\ waiterTimers' = finalizeWaiterTimers(waiterTimers, job)
                       /\ callers' = finalizeCallers(callers, job, envelope)
                       /\ finalEvents' = finalizeEvents(finalEvents, envelope)
                       /\ probe' = observeInvoked(probe, job, envelope)
                       /\ UNCHANGED retryTimers
    /\ running' = running \ {id}
    /\ drainScheduled' = TRUE
    /\ UNCHANGED <<maxInFlight, maxQueueDepth, now, lanes, jobSeq, drainTimers, calls>>

\* Fault-injected variant: the job goes back to the lane of its priority.
retryLaneOriginal(job) == job.priority

\* The lane the retry callback pushes the job to.
retryLane(job) == "retry"

\* Fault-injected variant: the callback returns for a failed job only.
retryTimerSkipsFailedOnly(job) == job.status = "failed"

\* Fault-injected variant: the callback does not look at the status.
retryTimerSkipsNever(job) == FALSE

\* The test at the head of the retry setTimeout callback.
retryTimerSkips(job) == job.status \in FINAL_STATUSES

\* The retry setTimeout callback set by the catch block of run.
RetryTimerFire(id) ==
    /\ id \in DOMAIN retryTimers
    /\ retryTimers[id] <= now
    /\ retryTimers' = WithoutKey(retryTimers, id)
    /\ IF retryTimerSkips(jobs[id])
       THEN UNCHANGED <<jobs, lanes, drainScheduled>>
       ELSE /\ jobs' = [jobs EXCEPT ![id].status = "queued"]
            /\ lanes' = [lanes EXCEPT ![retryLane(jobs[id])] = lanePush(@, id)]
            /\ drainScheduled' = TRUE
    /\ UNCHANGED <<probe, finalEvents, maxInFlight, maxQueueDepth, now, signals, running, results, jobSeq,
                   drainTimers, totals, calls, waiterTimers, callers>>

\* The clock advances between two callbacks.
Tick ==
    /\ now + TickMs <= MaxTicks * TickMs
    /\ now' = now + TickMs
    /\ UNCHANGED <<probe, finalEvents, maxInFlight, maxQueueDepth, signals, lanes, running, jobs, results,
                   jobSeq, drainScheduled, retryTimers, drainTimers, totals, calls,
                   waiterTimers, callers>>

Next ==
    \/ \E request \in Requests : Submit(request)
    \/ \E jobId \in 1..MaxJobs : Cancel(jobId)
    \/ DrainTick
    \/ \E due \in BagToSet(drainTimers) : DrainTimerFire(due)
    \/ \E id \in running : UpstreamReturn(id)
    \/ \E id \in running, error \in ErrorInputs : UpstreamThrow(id, error)
    \/ \E id \in DOMAIN retryTimers : RetryTimerFire(id)
    \/ Tick

Spec == Init /\ [][Next]_vars

\* ------------------------------------------------------------ inline runs
\* timeoutMs arguments; the timer is set to Math.max(1, Number(timeoutMs) || 1).
TimeoutInputs == 0..MaxTimeoutMs
waiterDelay(timeoutMs) == Max(1, NumberOr(timeoutMs, 1))

\* The requests of the replay harness, the caller of runInlineJob: an object
\* payload, with or without model and messages, and priority "batch".
InlineRequests ==
    {r \in Requests : r.priority = "batch" /\ r.payload.present /\ r.payload.isObject}

\* The exits of waitForCompletion before it creates its promise.
waitBranch(jobId) ==
    IF jobId \in DOMAIN results THEN "done"
    ELSE IF jobId \notin DOMAIN jobs THEN "JOB_NOT_FOUND"
    ELSE "waiting"

\* What waitForCompletion(jobId, timeoutMs) settles to at once, if it does.
waitResult(jobId) ==
    CASE waitBranch(jobId) = "done" -> [outcome |-> "resolved", value |-> results[jobId]]
      [] waitBranch(jobId) = "JOB_NOT_FOUND" -> [outcome |-> "rejected", value |-> "JOB_NOT_FOUND"]
      [] OTHER -> [outcome |-> "pending", value |-> "none"]

\* Fault-injected variant: the waiter is put at the head of the array.
waitersUnshift(ws, c) == <<c>> \o ws

\* job.waiters.push(fn), fn being the resolver of caller c.
waitersPush(ws, c) == Append(ws, c)

\* waitForCompletion(jobId, timeoutMs), up to the promise it returns.  A call
\* that registers a waiter becomes a caller: the index of its promise in
\* callers.
WaitForCompletionUpTo(limit, jobId, timeoutMs) ==
    IF waitBranch(jobId) # "waiting"
    THEN UNCHANGED vars
    ELSE /\ Len(callers) < limit
         /\ LET c == Len(callers) + 1 IN
            /\ callers' = Append(callers, waitResult(jobId))
            /\ waiterTimers' = (c :> (now + waiterDelay(timeoutMs))) @@ waiterTimers
            /\ jobs' = [jobs EXCEPT ![jobId].waiters = waitersPush(@, c)]
            /\ probe' = observeRegistered(probe, c, jobId)
         /\ UNCHANGED <<finalEvents, maxInFlight, maxQueueDepth, now, signals, lanes, running,
                        results, jobSeq, drainScheduled, retryTimers, drainTimers,
                        totals, calls>>

WaitForCompletion(jobId, timeoutMs) == WaitForCompletionUpTo(MaxCallers, jobId, timeoutMs)

\* runInlineJob(request, timeoutMs): submit, then waitForCompletion of the new
\* job in the same synchronous run; an error thrown by submit rejects the
\* promise of runInlineJob and nothing else happens.
RunInlineJob(request, timeoutMs) ==
    IF submitBranch(request) # "admitted"
    THEN UNCHANGED vars
    ELSE /\ Len(callers) < MaxCallers
         /\ jobSeq < MaxJobs
         /\ LET c == Len(callers) + 1
                priority == toPriority(request.priority)
                jobId == jobSeq + 1
                job == [newJob(jobId, priority) EXCEPT !.waiters = waitersPush(@, c)]
            IN  /\ jobSeq' = jobId
                /\ jobs' = Append(jobs, job)
                /\ lanes' = [lanes EXCEPT ![priority] = lanePush(@, jobId)]
                /\ totals' = recordSubmitted(totals)
                /\ calls' = Append(calls, 0)
                /\ finalEvents' = Append(finalEvents, 0)
                /\ drainScheduled' = TRUE
                /\ callers' = Append(callers, [outcome |-> "pending", value |-> "none"])
                /\ waiterTimers' = (c :> (now + waiterDelay(timeoutMs))) @@ waiterTimers
                /\ probe' = observeRegistered(probe, c, jobId)
         /\ UNCHANGED <<maxInFlight, maxQueueDepth, now, signals, running, results,
                        retryTimers, drainTimers>>

\* Fault-injected variant: the timeout also cancels the job it waited for.
WaiterTimerFireCancels(c) ==
    /\ c \in DOMAIN waiterTimers
    /\ waiterTimers[c] <= now
    /\ waiterTimers' = WithoutKey(waiterTimers, c)
    /\ callers' = [callers EXCEPT ![c] = IF @.outcome = "pending"
                                          THEN [outcome |-> "rejected",
                                                value |-> "UPSTREAM_TIMEOUT"]
                                          ELSE @]
    /\ jobs' = [j \in DOMAIN jobs |->
                   IF c \in Waiting(jobs[j])
                   THEN [jobs[j] EXCEPT !.cancelRequested = TRUE]
                   ELSE jobs[j]]
    /\ UNCHANGED <<probe, finalEvents, maxInFlight, maxQueueDepth, now, signals, lanes, running,
                   results, jobSeq, drainScheduled, retryTimers, drainTimers, totals,
                   calls>>

\* The waiter setTimeout callback of waitForCompletion: it rejects the promise.
WaiterTimerFire(c) ==
    /\ c \in DOMAIN waiterTimers
    /\ waiterTimers[c] <= now
    /\ waiterTimers' = WithoutKey(waiterTimers, c)
    /\ callers' = [callers EXCEPT ![c] = IF @.outcome = "pending"
                                          THEN [outcome |-> "rejected",
                                                value |-> "UPSTREAM_TIMEOUT"]
                                          ELSE @]
    /\ UNCHANGED <<probe, finalEvents, maxInFlight, maxQueueDepth, now, signals, lanes, running, jobs,
                   results, jobSeq, drainScheduled, retryTimers, drainTimers, totals,
                   calls>>

NextInline ==
    \/ Next
    \/ \E jobId \in 1..MaxJobs, timeoutMs \in TimeoutInputs :
          WaitForCompletion(jobId, timeoutMs)
    \/ \E request \in InlineRequests, timeoutMs \in TimeoutInputs :
          RunInlineJob(request, timeoutMs)
    \/ \E c \in DOMAIN waiterTimers : WaiterTimerFire(c)

\* The manager together with callers of waitForCompletion and runInlineJob.
SpecInline == Init /\ [][NextInline]_vars

\* The manager with its waiters observed: up to MaxWaitedJobs jobs are
\* submitted and up to MaxWaiters calls of waitForCompletion register on them.
InitWaiters ==
    /\ Constructed
    /\ probe = [fn |-> "waiters", registered |-> <<>>, invoked |-> <<>>]

NextWaiters ==
    \/ \E request \in Requests : jobSeq < MaxWaitedJobs /\ Submit(request)
    \/ \E request \in InlineRequests, timeoutMs \in TimeoutInputs :
          jobSeq < MaxWaitedJobs /\ RunInlineJob(request, timeoutMs)
    \/ \E jobId \in 1..MaxWaitedJobs, timeoutMs \in TimeoutInputs :
          WaitForCompletionUpTo(MaxWaiters, jobId, timeoutMs)
    \/ \E c \in DOMAIN waiterTimers : WaiterTimerFire(c)
    \/ \E jobId \in 1..MaxWaitedJobs : Cancel(jobId)
    \/ DrainTick
    \/ \E due \in BagToSet(drainTimers) : DrainTimerFire(due)
    \/ \E id \in running : UpstreamReturn(id)
    \/ \E id \in running, error \in ErrorInputs : UpstreamThrow(id, error)
    \/ \E id \in DOMAIN retryTimers : RetryTimerFire(id)
    \/ Tick

SpecWaiters == InitWaiters /\ [][NextWaiters]_vars

\* ------------------------------------------------------------ read paths
\* getStatus(jobId): the status object, or null (found = FALSE).
getStatus(jobId) ==
    IF jobId \in DOMAIN results
    THEN [found |-> TRUE, status |-> results[jobId].status]
    ELSE IF jobId \notin DOMAIN jobs
    THEN [found |-> FALSE, status |-> "none"]
    ELSE [found |-> TRUE, status |-> jobs[jobId].status]

\* getResult(jobId): this.results.get(jobId) || null.
getResult(jobId) ==
    IF jobId \in DOMAIN results
    THEN [found |-> TRUE, envelope |-> results[jobId]]
    ELSE [found |-> FALSE, envelope |-> buildStructuredEnvelope(jobId, "none", NoError, 0)]

\* Fault-injected variant: the route asks for the status before the result.
resultRouteStatusFirst(jobId) ==
    IF ~getStatus(jobId).found
    THEN [http |-> 404, job_id |-> jobId, status |-> "JOB_NOT_FOUND"]
    ELSE [http |-> 202, job_id |-> jobId, status |-> getStatus(jobId).status]

\* GET /async/result/:jobId: the HTTP status it answers with, and of the body
\* the job id and the status (of the envelope, of the job, or the error code).
resultRoute(jobId) ==
    IF getResult(jobId).found
    THEN [http |-> 200, job_id |-> getResult(jobId).envelope.job_id,
          status |-> getResult(jobId).envelope.status]
    ELSE IF ~getStatus(jobId).found
    THEN [http |-> 404, job_id |-> jobId, status |-> "JOB_NOT_FOUND"]
    ELSE [http |-> 202, job_id |-> jobId, status |-> getStatus(jobId).status]

\* ------------------------------------------------- functions examined alone
\* The variables of the queue manager, which these examinations leave alone.
queueVars == <<maxInFlight, maxQueueDepth, now, signals, lanes, running, jobs, results,
               jobSeq, drainScheduled, retryTimers, drainTimers, totals, calls,
               waiterTimers, callers, finalEvents>>

\* classifyError(error) is called on an error drawn from ClassifyInputs.
InitClassify ==
    /\ Constructed
    /\ probe \in {[fn |-> "classifyError", arg |-> error, done |-> FALSE, out |-> NoError] :
                     error \in ClassifyInputs}

CallClassifyError ==
    /\ probe.fn = "classifyError"
    /\ ~probe.done
    /\ probe' = [probe EXCEPT !.done = TRUE, !.out = classifyError(probe.arg)]
    /\ UNCHANGED queueVars

NextClassify == CallClassifyError

SpecClassify == InitClassify /\ [][NextClassify]_vars

\* The deadlines and clock values resolveSidecarState is examined on;
\* `Number(x || 0)` makes an absent deadline 0.
DeadlineInputs == {k * TickMs : k \in 0..MaxDeadlineSteps}
ResolveInputs ==
    [now : DeadlineInputs, connectivityOk : BOOLEAN,
     signals : [auth_required_until : DeadlineInputs, challenge_until : DeadlineInputs,
                rate_limited_until : DeadlineInputs, degraded_until : DeadlineInputs]]

\* Fault-injected variant: the connectivity check comes first.
resolveSidecarStateConnectivityFirst(arg) ==
    IF ~arg.connectivityOk
    THEN [state |-> "degraded", reasons |-> <<"connectivity_check_failed">>]
    ELSE IF arg.signals.auth_required_until > arg.now
    THEN [state |-> "auth_required", reasons |-> <<"auth_required_signal">>]
    ELSE IF arg.signals.challenge_until > arg.now
    THEN [state |-> "challenge", reasons |-> <<"challenge_signal">>]
    ELSE IF arg.signals.rate_limited_until > arg.now
    THEN [state |-> "rate_limited", reasons |-> <<"rate_limited_signal">>]
    ELSE IF arg.signals.degraded_until > arg.now
    THEN [state |-> "degraded", reasons |-> <<"degraded_cooldown">>]
    ELSE [state |-> "ready", reasons |-> <<>>]

\* resolveSidecarState({now, connectivityOk, signals}): state and reasons.
resolveSidecarState(arg) ==
    IF arg.signals.auth_required_until > arg.now
    THEN [state |-> "auth_required", reasons |-> <<"auth_required_signal">>]
    ELSE IF arg.signals.challenge_until > arg.now
    THEN [state |-> "challenge", reasons |-> <<"challenge_signal">>]
    ELSE IF arg.signals.rate_limited_until > arg.now
    THEN [state |-> "rate_limited", reasons |-> <<"rate_limited_signal">>]
    ELSE IF ~arg.connectivityOk
    THEN [state |-> "degraded", reasons |-> <<"connectivity_check_failed">>]
    ELSE IF arg.signals.degraded_until > arg.now
    THEN [state |-> "degraded", reasons |-> <<"degraded_cooldown">>]
    ELSE [state |-> "ready", reasons |-> <<>>]

InitResolve ==
    /\ Constructed
    /\ probe \in {[fn |-> "resolveSidecarState", arg |-> arg, done |-> FALSE,
                   out |-> [state |-> "none", reasons |-> <<>>]] :
                     arg \in ResolveInputs}

CallResolveSidecarState ==
    /\ probe.fn = "resolveSidecarState"
    /\ ~probe.done
    /\ probe' = [probe EXCEPT !.done = TRUE, !.out = resolveSidecarState(probe.arg)]
    /\ UNCHANGED queueVars

NextResolve == CallResolveSidecarState

SpecResolve == InitResolve /\ [][NextResolve]_vars

\* ---------------------------------------------------------- replay harness
\* ReplayHarness.run as far as its drift alert goes.  The inline runs of the
\* cases are what SpecInline describes; here their outcome enters as the
\* candidate accuracy they yield, counted in hundredths (0..100).
ReplayNames == {"mouse-core", "mouse core", "mouse_core"}
AccuracyInputs == {0, 95, 96, 100}
DriftThreshold == 5

\* String(replayName).replace(/[^a-zA-Z0-9._-]+/g, "_") on the names in use.
safeName(replayName) ==
    CASE replayName = "mouse core" -> "mouse_core"
      [] OTHER -> replayName

SafeNames == {safeName(replayName) : replayName \in ReplayNames}

\* The content of a latest-<safe name>.json file: absent, text that is not
\* JSON ("garbage"), or a JSON object with or without a summary, whose
\* candidate_accuracy is a number, null, a text that is no number, or missing.
fileAbsent ==
    [kind |-> "absent", replay_name |-> "", hasSummary |-> FALSE,
     acc |-> [t |-> "missing", v |-> 0]]
DamagedFiles ==
    { [kind |-> "garbage", replay_name |-> "", hasSummary |-> FALSE,
       acc |-> [t |-> "missing", v |-> 0]],
      [kind |-> "json", replay_name |-> "", hasSummary |-> FALSE,
       acc |-> [t |-> "missing", v |-> 0]],
      [kind |-> "json", replay_name |-> "", hasSummary |-> TRUE,
       acc |-> [t |-> "missing", v |-> 0]],
      [kind |-> "json", replay_name |-> "", hasSummary |-> TRUE,
       acc |-> [t |-> "text", v |-> 0]],
      [kind |-> "json", replay_name |-> "", hasSummary |-> TRUE,
       acc |-> [t |-> "null", v |-> 0]] }

\* JSON.stringify(report) as run writes it.
reportFile(report) ==
    [kind |-> "json", replay_name |-> report.replay_name, hasSummary |-> TRUE,
     acc |-> [t |-> "number", v |-> report.candidate_accuracy]]

\* Number(x) with Number.isFinite: null gives 0, a missing value or a text
\* that is no number gives NaN.
toNumber(x) ==
    CASE x.t = "number" -> [finite |-> TRUE, v |-> x.v]
      [] x.t = "null" -> [finite |-> TRUE, v |-> 0]
      [] OTHER -> [finite |-> FALSE, v |-> 0]

\* previousAcc of run: null (known = FALSE) unless the file parses, has a
\* summary and a finite candidate_accuracy; JSON.parse throws on garbage and
\* the catch block ignores it.
previousAcc(file) ==
    IF file.kind = "json" /\ file.hasSummary /\ toNumber(file.acc).finite
    THEN [known |-> TRUE, v |-> toNumber(file.acc).v]
    ELSE [known |-> FALSE, v |-> 0]

\* The drift_alerts of the report, given the latest file found.
driftAlerts(file, candidateAcc) ==
    IF /\ file.kind # "absent"
       /\ previousAcc(file).known
       /\ candidateAcc - previousAcc(file).v <= -DriftThreshold
    THEN << [level |-> "warn", type |-> "accuracy_drop",
             previous_candidate_accuracy |-> previousAcc(file).v,
             current_candidate_accuracy |-> candidateAcc] >>
    ELSE <<>>

\* A harness with or without a reports directory; the directory holds, per
\* safe name, no latest file or a damaged one.
InitReplay ==
    /\ Constructed
    /\ probe \in [fn : {"replay"}, reportsDir : BOOLEAN,
                  files : [SafeNames -> {fileAbsent} \cup DamagedFiles],
                  runs : {0},
                  report : {[replay_name |-> "", candidate_accuracy |-> 0,
                             drift_alerts |-> <<>>]}]

\* run({replayName, ...}) whose cases yield candidateAcc.
ReplayRun(replayName, candidateAcc) ==
    /\ probe.fn = "replay"
    /\ probe.runs < MaxRuns
    /\ LET latest == safeName(replayName)
           report == [replay_name |-> replayName,
                      candidate_accuracy |-> candidateAcc,
                      drift_alerts |-> IF probe.reportsDir
                                       THEN driftAlerts(probe.files[latest], candidateAcc)
                                       ELSE <<>>]
       IN  probe' = [probe EXCEPT
                        !.runs = @ + 1,
                        !.report = report,
                        !.files = IF probe.reportsDir
                                  THEN [@ EXCEPT ![latest] = reportFile(report)]
                                  ELSE @]
    /\ UNCHANGED queueVars

NextReplay ==
    \E replayName \in ReplayNames, candidateAcc \in AccuracyInputs :
       ReplayRun(replayName, candidateAcc)

SpecReplay == InitReplay /\ [][NextReplay]_vars

\* POST /async/cancel/:jobId: the response for the current state.  A field the
\* record returned by cancel does not have reads as undefined in the route.
cancelRoute(jobId) ==
    LET result == cancelResult(jobId)
    IN  IF "code" \in DOMAIN result /\ result.code = "JOB_NOT_FOUND"
        THEN [http |-> 404, ok |-> FALSE, job_id |-> jobId,
              status |-> "JOB_NOT_FOUND", running |-> FALSE]
        ELSE [http |-> 200,
              ok |-> result.cancelled,
              job_id |-> jobId,
              status |-> IF "status" \in DOMAIN result THEN result.status
                         ELSE "cancel_requested",
              running |-> IF "running" \in DOMAIN result THEN result.running
                          ELSE FALSE]

\* The retryPolicy options the retry delay is examined on (0 stands for an
\* absent option, which `Number(x) || default` replaces by the default).
DelayMaxAttemptsInputs == {0, 1, 3, 7}
DelayBaseInputs == {-1, 0, 1, 50, 1000, 1500}
DelayMaxInputs == {-1, 0, 50, 100, 1500, 45000}
DelayOptions ==
    [maxAttempts : DelayMaxAttemptsInputs, baseDelayMs : DelayBaseInputs,
     maxDelayMs : DelayMaxInputs]

\* One job fails retryably again and again under the policy of the options;
\* probe.delays lists the delays of its retry timers, in order.
InitDelay ==
    /\ Constructed
    /\ probe \in {[fn |-> "retryDelay", options |-> o, attempts |-> 1, delays |-> <<>>] :
                     o \in DelayOptions}

\* The retry branch of the catch block: taken while attempts < maxAttempts;
\* the timer is set with the delay and the next attempt follows.
RetryDelayStep ==
    /\ probe.fn = "retryDelay"
    /\ probe.attempts < retryPolicyOf(probe.options).maxAttempts
    /\ probe' = [probe EXCEPT
                    !.delays = Append(@, delayOf(retryPolicyOf(probe.options),
                                                 probe.attempts)),
                    !.attempts = @ + 1]
    /\ UNCHANGED queueVars

NextDelay == RetryDelayStep

SpecDelay == InitDelay /\ [][NextDelay]_vars

\* ----------------------------------------------------- runs without an end
\* The manager under a stream of submissions that need not end.  Two things
\* are kept within bounds without changing what the manager does next.
\* (1) Times are kept relative to the clock: when the clock advances by TickMs
\* every stored deadline comes TickMs closer (0 = already passed) and now
\* stays 0; the code compares deadlines with Date.now() and adds durations to
\* it, nothing else.  (2) Only MaxJobs job ids are kept: a new job takes the
\* id of a finalized job, which the manager reads again only when that id is
\* looked up, and the totals give up the count of the job that is replaced.
LiveErrors ==
    {error \in ErrorInputs : error.statusCode \in {0, 429, 404}}

closer(t) == Max(0, t - TickMs)

\* Date.now() has advanced by TickMs.
LiveTick ==
    /\ signals' = [d \in DOMAIN signals |-> closer(signals[d])]
    /\ retryTimers' = [id \in DOMAIN retryTimers |-> closer(retryTimers[id])]
    /\ drainTimers' = BagOfAll(closer, drainTimers)
    /\ UNCHANGED <<probe, finalEvents, maxInFlight, maxQueueDepth, now, lanes, running, jobs,
                   results, jobSeq, drainScheduled, totals, calls, waiterTimers, callers>>

\* The totals without the count of a finalized job.
forgetTotals(t, status) ==
    [submitted |-> t.submitted - 1,
     completed |-> t.completed - (IF status = "completed" THEN 1 ELSE 0),
     failed    |-> t.failed - (IF status = "failed" THEN 1 ELSE 0),
     cancelled |-> t.cancelled - (IF status = "cancelled" THEN 1 ELSE 0)]

\* submit(payload, options) once MaxJobs ids are in use: the new job takes the
\* id of a finalized job.
LiveSubmit(request) ==
    IF jobSeq < MaxJobs \/ submitBranch(request) # "admitted"
    THEN Submit(request)
    ELSE \E jobId \in DOMAIN results :
            /\ jobId \notin DOMAIN retryTimers
            /\ LET priority == toPriority(request.priority)
                   job == newJob(jobId, priority)
               IN  /\ jobs' = [jobs EXCEPT ![jobId] = job]
                   /\ results' = WithoutKey(results, jobId)
                   /\ lanes' = [lanes EXCEPT ![priority] = lanePush(@, jobId)]
                   /\ totals' = recordSubmitted(forgetTotals(totals, results[jobId].status))
                   /\ calls' = [calls EXCEPT ![jobId] = 0]
                   /\ finalEvents' = [finalEvents EXCEPT ![jobId] = 0]
                   /\ drainScheduled' = TRUE
            /\ UNCHANGED <<probe, maxInFlight, maxQueueDepth, now, signals, running, jobSeq,
                           retryTimers, drainTimers, waiterTimers, callers>>

\* The setImmediate callback, while fewer than MaxDrainTimers cooldown timers
\* are pending (the timers set by #drain are not coalesced, so their number
\* has no bound of its own).
LiveDrainTick ==
    /\ BagCardinality(drainTimers) < MaxDrainTimers
    /\ DrainTick

\* One upstream call in flight at a time, the widest queue of the bounds.
InitLive ==
    /\ Constructed
    /\ maxInFlight = 1
    /\ maxQueueDepth = MaxQueueDepthCfg
    /\ probe = [fn |-> "none"]

\* The upstream call of job id settles: it returns or it throws.
UpstreamSettles(id) ==
    \/ UpstreamReturn(id)
    \/ \E error \in LiveErrors : UpstreamThrow(id, error)

NextLive ==
    \/ \E request \in Requests : LiveSubmit(request)
    \/ LiveDrainTick
    \/ \E due \in BagToSet(drainTimers) : DrainTimerFire(due)
    \/ \E id \in running : UpstreamSettles(id)
    \/ \E id \in DOMAIN retryTimers : RetryTimerFire(id)
    \/ LiveTick

\* Every scheduled callback runs in the end: the setImmediate drain, the
\* cooldown and retry timers once their time has come, and the continuation
\* of every upstream call; the clock keeps advancing.
LiveFairness ==
    /\ WF_vars(LiveDrainTick)
    /\ WF_vars(\E due \in BagToSet(drainTimers) : DrainTimerFire(due))
    /\ \A id \in 1..MaxJobs : WF_vars(UpstreamSettles(id))
    /\ \A id \in 1..MaxJobs : WF_vars(RetryTimerFire(id))
    /\ WF_vars(LiveTick)

SpecLive == InitLive /\ [][NextLive]_vars /\ LiveFairness

\* ================================================================ claims
LaneOrder == lanes.interactive \o lanes.retry \o lanes.batch
LaneDepth == Len(lanes.interactive) + Len(lanes.retry) + Len(lanes.batch)
JobIds == DOMAIN jobs
InLane(p, j) == \E i \in 1..Len(lanes[p]) : lanes[p][i] = j
SignalDeadlines == {signals.auth_required_until, signals.challenge_until,
                    signals.rate_limited_until, signals.degraded_until}

\* C1: in every reachable state the number of job ids in the three lanes plus
\* the number of running jobs is at most max_queue_depth.
C1_DepthWithinMaxQueueDepth ==
    LaneDepth + Cardinality(running) <= maxQueueDepth

\* C2: every drain starts jobs in lane precedence interactive > retry > batch:
\* the jobs a step starts are a prefix of the lanes laid end to end in that
\* order, called in that order; so a pending interactive job is started
\* before any batch job, whatever the submission order.
C2_LanePrecedence ==
    [][ LET started == {j \in DOMAIN calls : calls'[j] > calls[j]}
            n == Cardinality(started)
            log == drainLoop([lanes |-> lanes, jobs |-> jobs, running |-> running,
                              calls |-> calls, log |-> <<>>]).log
        IN  started # {} =>
              /\ n <= Len(LaneOrder)
              /\ started = {LaneOrder[i] : i \in 1..n}
              /\ log = SubSeq(LaneOrder, 1, n)
              /\ (lanes.interactive # <<>> =>
                    Head(lanes.interactive) \in started)
              /\ \A j \in started :
                    /\ InLane("batch", j) =>
                          \A k \in JobIds :
                             (InLane("interactive", k) \/ InLane("retry", k))
                                => k \in started
                    /\ InLane("retry", j) =>
                          \A k \in JobIds : InLane("interactive", k) => k \in started
      ]_vars

\* C2 witness: with maxInFlight = 1 an interactive job submitted after a batch
\* job has been started while the batch job is still waiting in its lane.
C2_Witness ==
    /\ maxInFlight = 1
    /\ \E a, b \in JobIds :
          /\ a < b
          /\ jobs[a].priority = "batch" /\ jobs[a].status = "queued" /\ calls[a] = 0
          /\ jobs[b].priority = "interactive" /\ calls[b] = 1

\* C3: in every reachable state the number of running jobs is at most
\* max_in_flight.
C3_RunningWithinMaxInFlight ==
    Cardinality(running) <= maxInFlight

\* C3 witness: the budget is used up while another job waits in a lane.
C3_Witness ==
    /\ Cardinality(running) = maxInFlight
    /\ LaneDepth > 0
    /\ drainScheduled = FALSE

\* C4: no job changes from queued to running while any of the four signal
\* deadlines (hence their maximum, the cooldown gate) is later than now.
C4_NoStartDuringCooldown ==
    [][ \A j \in JobIds :
          (jobs[j].status = "queued" /\ jobs'[j].status = "running")
             => \A d \in SignalDeadlines : d <= now
      ]_vars

\* C4 witness: with maxInFlight = 1 a job is running although a cooldown was
\* set by an earlier failure, so it was started after that cooldown ran out.
C4_Witness ==
    /\ maxInFlight = 1
    /\ running # {}
    /\ \E d \in SignalDeadlines : d > 0
    /\ \A d \in SignalDeadlines : d <= now

DepthFull == LaneDepth + Cardinality(running) >= maxQueueDepth

\* C5: while running + total lane length is at least max_queue_depth, submit
\* of a well-formed request raises QUEUE_BACKPRESSURE, and no submit made in
\* such a state creates a job: lanes, job map, jobSeq and the metrics totals
\* stay as they are.
C5_BackpressureRejects ==
    /\ [](DepthFull =>
            \A request \in Requests :
               request.payload = ValidPayload =>
                  submitResult(request) = [threw |-> "QUEUE_BACKPRESSURE"])
    /\ [][ DepthFull =>
             \A request \in Requests :
                Submit(request) => UNCHANGED <<lanes, jobs, jobSeq, totals>>
         ]_vars

\* C5 witness: maxInFlight = 1, maxQueueDepth = 1, the first job is running
\* and a second well-formed submit is rejected.
C5_Witness ==
    /\ maxInFlight = 1
    /\ maxQueueDepth = 1
    /\ Cardinality(running) = 1
    /\ submitResult([payload |-> ValidPayload, priority |-> "batch"]).threw
          = "QUEUE_BACKPRESSURE"

\* C6: cancel of a job that was submitted and never dispatched returns
\* cancelled, stores a cancelled envelope with error JOB_CANCELLED, and the
\* upstream client is called for that job neither before nor afterwards.
C6_CancelBeforeDispatch ==
    [][ \A j \in JobIds :
          /\ (Cancel(j) /\ jobs[j].status = "queued" /\ calls[j] = 0) =>
                /\ cancelResult(j) = [cancelled |-> TRUE, running |-> FALSE,
                                      job_id |-> j, status |-> "cancelled"]
                /\ j \in DOMAIN results'
                /\ results'[j].status = "cancelled"
                /\ results'[j].error.code = "JOB_CANCELLED"
                /\ calls'[j] = 0
          /\ (j \in DOMAIN results /\ calls[j] = 0) => calls'[j] = 0
      ]_vars

\* C6 witness: a job cancelled before dispatch, and drains have run since
\* without calling the upstream client for it.
C6_Witness ==
    \E j \in DOMAIN results :
       /\ results[j].status = "cancelled"
       /\ results[j].error.code = "JOB_CANCELLED"
       /\ calls[j] = 0
       /\ drainScheduled = FALSE
       /\ \E k \in JobIds : k > j /\ calls[k] > 0

\* C7: the envelope stored for a job whose cancel was requested while it was
\* running has status cancelled.
C7_CancelRequestedEndsCancelled ==
    \A j \in DOMAIN results :
       jobs[j].cancelRequested => results[j].status = "cancelled"

\* C8: cancel on a job that is already terminal returns ALREADY_FINAL, every
\* time, and changes neither the stored envelope nor lanes, running set,
\* signals, metrics or the job.
C8_CancelOnFinalJob ==
    /\ [](\A j \in DOMAIN results :
             cancelResult(j) = [cancelled |-> FALSE, code |-> "ALREADY_FINAL"])
    /\ [][ \A j \in DOMAIN results :
             Cancel(j) => UNCHANGED <<results, lanes, running, signals, totals, jobs>>
         ]_vars

\* C8 witness: jobs of two different terminal statuses are in the result cache.
C8_Witness ==
    \E j, k \in DOMAIN results :
       /\ results[j].status = "completed"
       /\ results[k].status = "cancelled"
       /\ cancelResult(j).code = "ALREADY_FINAL"

\* C9: a job is passed to the upstream client at most maxAttempts times and
\* its attempts never exceed maxAttempts; a job that is not terminal has no
\* envelope; a failure of a job that is not cancel-requested leaves it
\* retrying without an envelope while it is retryable and attempts remain,
\* and otherwise finalizes it as failed with the classified code.
C9_RetryBounded ==
    /\ [](\A j \in JobIds :
             /\ calls[j] <= retryPolicy.maxAttempts
             /\ jobs[j].attempts <= retryPolicy.maxAttempts
             /\ (jobs[j].status \in {"queued", "running", "retrying"}
                   => j \notin DOMAIN results))
    /\ [][ \A j \in running, error \in ErrorInputs :
             (UpstreamThrow(j, error) /\ ~jobs[j].cancelRequested) =>
                IF classifyError(error).retryable
                   /\ jobs[j].attempts < retryPolicy.maxAttempts
                THEN /\ jobs'[j].status = "retrying"
                     /\ j \notin DOMAIN results'
                ELSE /\ jobs'[j].status = "failed"
                     /\ j \in DOMAIN results'
                     /\ results'[j].status = "failed"
                     /\ results'[j].error.code = classifyError(error).code
         ]_vars

\* C9 witness: a job failed on a retryable error with its attempts used up.
C9_Witness ==
    \E j \in DOMAIN results :
       /\ results[j].status = "failed"
       /\ results[j].error.retryable
       /\ retryPolicy.maxAttempts >= 2
       /\ results[j].attempts = retryPolicy.maxAttempts
       /\ calls[j] = retryPolicy.maxAttempts

\* C10: the attempts count of a terminal envelope equals the number of times
\* the job was started, i.e. passed to the upstream client.
C10_EnvelopeAttempts ==
    \A j \in DOMAIN results : results[j].attempts = calls[j]

\* C10 witness: a job completed on its second attempt.
C10_Witness ==
    \E j \in DOMAIN results :
       /\ results[j].status = "completed"
       /\ results[j].attempts = 2
       /\ calls[j] = 2

\* C11: in every reachable state each job id handed out so far is in exactly
\* one of the active job map (this.jobs) and the result cache (this.results),
\* never in both: a finalized job has left the active map.
C11_ActiveXorResult ==
    \A j \in 1..jobSeq : (j \in DOMAIN jobs) # (j \in DOMAIN results)

\* C12: in every reachable state each job id occurs at most once across the
\* three lanes, and a job whose status is running, retrying, completed, failed
\* or cancelled occurs in no lane.
C12_LaneMembership ==
    /\ \A i, k \in 1..Len(LaneOrder) : LaneOrder[i] = LaneOrder[k] => i = k
    /\ \A j \in JobIds :
          jobs[j].status \in {"running", "retrying", "completed", "failed", "cancelled"}
             => \A i \in 1..Len(LaneOrder) : LaneOrder[i] # j

\* C12 witness: a job was cancelled before dispatch and is in no lane, and
\* the only lane entry is another job that a retry put back as queued.
C12_Witness ==
    \E j, k \in JobIds :
       /\ jobs[j].status = "cancelled" /\ calls[j] = 0
       /\ jobs[k].status = "queued" /\ calls[k] = 1
       /\ LaneOrder = <<k>>

\* C13: in every reachable state a job has an envelope in the result cache
\* if and only if its status is completed, failed or cancelled, and the status
\* of the stored envelope equals the job's status.
C13_EnvelopeIffTerminal ==
    \A j \in JobIds :
       /\ (j \in DOMAIN results) <=> (jobs[j].status \in {"completed", "failed", "cancelled"})
       /\ (j \in DOMAIN results) => results[j].status = jobs[j].status

\* C13 witness: the cache holds a failed envelope and the cancelled envelope
\* of a job that had been started, and no retry timer is pending for the
\* cancelled job.
C13_Witness ==
    \E j, k \in DOMAIN results :
       /\ results[j].status = "failed" /\ jobs[j].status = "failed"
       /\ results[k].status = "cancelled" /\ jobs[k].status = "cancelled"
       /\ calls[k] = 1
       /\ k \notin DOMAIN retryTimers

StatedTransitions ==
    { <<"queued", "running">>, <<"running", "completed">>, <<"running", "failed">>,
      <<"running", "retrying">>, <<"running", "cancelled">>, <<"retrying", "queued">>,
      <<"queued", "cancelled">> }

\* C14 as stated: every change of a job's status is one of queued->running,
\* running->completed, running->failed, running->retrying, running->cancelled,
\* retrying->queued, queued->cancelled.
C14_StatedTransitionsOnly ==
    [][ \A j \in JobIds :
          jobs'[j].status # jobs[j].status =>
             <<jobs[j].status, jobs'[j].status>> \in StatedTransitions
      ]_vars

\* C14 (amended): a job is created queued, and every change of a job's status
\* is one of the stated transitions or retrying->cancelled (cancel of a job
\* that waits for its retry timer); completed, failed and cancelled are
\* absorbing.
C14_Transitions ==
    [][ /\ \A j \in DOMAIN jobs' \ JobIds : jobs'[j].status = "queued"
        /\ \A j \in JobIds :
              /\ jobs'[j].status # jobs[j].status =>
                    <<jobs[j].status, jobs'[j].status>>
                       \in StatedTransitions \cup {<<"retrying", "cancelled">>}
              /\ jobs[j].status \in {"completed", "failed", "cancelled"} =>
                    jobs'[j].status = jobs[j].status
      ]_vars

\* C14 witness: a job was cancelled while it waited for its retry timer (the
\* timer is still pending), and the clock has passed the timer's due time.
C14_Witness ==
    \E j \in JobIds :
       /\ jobs[j].status = "cancelled"
       /\ ~jobs[j].cancelRequested
       /\ calls[j] = 1
       /\ j \in DOMAIN retryTimers
       /\ retryTimers[j] <= now

LaneNames == {PRIORITIES[i] : i \in 1..Len(PRIORITIES)}
PosIn(seq, j) == CHOOSE i \in 1..Len(seq) : seq[i] = j
Holds(seq, j) == \E i \in 1..Len(seq) : seq[i] = j

\* C15: within one lane jobs are started in the order they were appended to
\* it: a step appends new ids behind the ids the lane already holds and keeps
\* the order of those that stay, and a step that starts a job of a lane has
\* started, earlier in the same step, every job in front of it in that lane.
C15_LaneFifo ==
    [][ LET log == drainLoop([lanes |-> lanes, jobs |-> jobs, running |-> running,
                              calls |-> calls, log |-> <<>>]).log
        IN  \A p \in LaneNames :
              /\ \A i, k \in 1..Len(lanes[p]) :
                    i < k =>
                       LET a == lanes[p][i]
                           b == lanes[p][k]
                       IN  /\ calls'[b] > calls[b] =>
                                 /\ calls'[a] > calls[a]
                                 /\ Holds(log, a) /\ Holds(log, b)
                                 /\ PosIn(log, a) < PosIn(log, b)
                           /\ (Holds(lanes'[p], a) /\ Holds(lanes'[p], b)) =>
                                 PosIn(lanes'[p], a) < PosIn(lanes'[p], b)
              /\ \A a, b \in DOMAIN jobs' :
                    (Holds(lanes[p], a) /\ Holds(lanes'[p], a)
                       /\ ~Holds(lanes[p], b) /\ Holds(lanes'[p], b)) =>
                          PosIn(lanes'[p], a) < PosIn(lanes'[p], b)
      ]_vars

\* C15 witness: with maxInFlight = 1 two jobs were pushed onto the batch lane;
\* the first has been started and the second still waits in the lane.
C15_Witness ==
    /\ maxInFlight = 1
    /\ \E a, b \in JobIds :
          /\ a < b
          /\ jobs[a].priority = "batch" /\ jobs[b].priority = "batch"
          /\ calls[a] = 1 /\ a \in running
          /\ calls[b] = 0 /\ lanes.batch = <<b>>

\* The step stores the first envelope of job j.
Finalizes(j) == j \notin DOMAIN results /\ j \in DOMAIN results'

\* max_in_flight is 1, every job submitted so far is a batch job, and no
\* cancel has been accepted up to the end of the step.
OnlyBatchNoCancel ==
    /\ maxInFlight = 1
    /\ \A k \in JobIds : jobs[k].priority = "batch"
    /\ totals'.cancelled = 0
    /\ \A k \in JobIds : ~jobs'[k].cancelRequested

\* C16 as stated: with max_in_flight = 1, only batch jobs submitted and none
\* cancelled, the jobs reach their terminal state in submission order: when a
\* job becomes terminal every job submitted before it is terminal already.
C16_TerminalInSubmissionOrder ==
    [][ OnlyBatchNoCancel =>
          \A j \in JobIds : Finalizes(j) => \A i \in 1..(j - 1) : i \in DOMAIN results
      ]_vars

\* C16 (amended): the same, for runs in which no job is retried, i.e. no job
\* is waiting for its retry timer, sits in the retry lane or has been started
\* more than once.
C16_TerminalInSubmissionOrderNoRetry ==
    [][ (/\ OnlyBatchNoCancel
         /\ \A k \in JobIds :
               /\ jobs[k].status # "retrying"
               /\ ~InLane("retry", k)
               /\ calls[k] <= 1) =>
          \A j \in JobIds : Finalizes(j) => \A i \in 1..(j - 1) : i \in DOMAIN results
      ]_vars

\* C16 witness: max_in_flight = 1, two batch jobs, no cancel and no retry, and
\* both are terminal after one attempt each.
C16_Witness ==
    /\ maxInFlight = 1
    /\ jobSeq = 2
    /\ \A k \in JobIds :
          /\ jobs[k].priority = "batch"
          /\ ~jobs[k].cancelRequested
          /\ k \in DOMAIN results
          /\ results[k].attempts = 1
    /\ totals.cancelled = 0
    /\ results[1].status = "failed" /\ results[2].status = "completed"

\* C17: whenever an upstream failure is classified as a kind that has a
\* cooldown, the deadline of that kind right after the error is now plus the
\* duration the manager was configured with, which is at least now plus the
\* floor of 1000 ms.
C17_CooldownDeadline ==
    [][ \A id \in running, error \in ErrorInputs :
          UpstreamThrow(id, error) =>
             LET code == classifyError(error).code IN
             /\ code = "UPSTREAM_LOGIN_REQUIRED" =>
                   /\ signals'.auth_required_until = now + cooldowns.authRequiredMs
                   /\ signals'.auth_required_until >= now + CooldownFloorMs
             /\ code = "UPSTREAM_CHALLENGE" =>
                   /\ signals'.challenge_until = now + cooldowns.challengeMs
                   /\ signals'.challenge_until >= now + CooldownFloorMs
             /\ code = "UPSTREAM_RATE_LIMITED" =>
                   /\ signals'.rate_limited_until = now + cooldowns.rateLimitedMs
                   /\ signals'.rate_limited_until >= now + CooldownFloorMs
             /\ code = "UPSTREAM_UNAVAILABLE" =>
                   /\ signals'.degraded_until = now + cooldowns.degradedMs
                   /\ signals'.degraded_until >= now + CooldownFloorMs
      ]_vars

\* C17 witness: a challenge failure at a clock value above 0, with a configured
\* challenge duration below the floor, has set the deadline to now + 1000.
C17_Witness ==
    /\ CfgChallengeMs < CooldownFloorMs
    /\ now > 0
    /\ signals.challenge_until = now + CooldownFloorMs

\* C18: a job (with no cancel requested) whose upstream call fails with a
\* non-retryable classification is finalized as failed by that very step,
\* whatever its attempts, with error.code the classified code and
\* retryable = FALSE; a LOGIN_REQUIRED failure moves auth_required_until to at
\* least now + the auth cooldown; and a failed job is never started again.
C18_NonRetryableFails ==
    [][ /\ \A id \in running, error \in ErrorInputs :
              (/\ UpstreamThrow(id, error)
               /\ ~classifyError(error).retryable
               /\ ~jobs[id].cancelRequested) =>
                 /\ jobs'[id].status = "failed"
                 /\ id \in DOMAIN results'
                 /\ results'[id].status = "failed"
                 /\ results'[id].error.code = classifyError(error).code
                 /\ results'[id].error.retryable = FALSE
                 /\ results'[id].attempts = jobs[id].attempts
                 /\ id \notin DOMAIN retryTimers'
                 /\ classifyError(error).code = "UPSTREAM_LOGIN_REQUIRED" =>
                       signals'.auth_required_until
                          >= now + Max(CooldownFloorMs, CfgAuthRequiredMs)
        /\ \A j \in DOMAIN results :
              results[j].status = "failed" =>
                 /\ calls'[j] = calls[j]
                 /\ jobs'[j].status = "failed"
                 /\ ~Holds(lanes'.interactive \o lanes'.retry \o lanes'.batch, j)
      ]_vars

\* C18 witness: a job failed with UPSTREAM_LOGIN_REQUIRED on its first attempt
\* although max_attempts allows another one; the auth deadline was set, and a
\* drain has run since.
C18_Witness ==
    \E j \in DOMAIN results :
       /\ results[j].status = "failed"
       /\ results[j].error.code = "UPSTREAM_LOGIN_REQUIRED"
       /\ results[j].attempts = 1
       /\ retryPolicy.maxAttempts > 1
       /\ signals.auth_required_until >= CooldownFloorMs
       /\ drainScheduled = FALSE
       /\ calls[j] = 1

\* C19: an active cooldown never makes submit reject: whenever running + total
\* lane length is below max_queue_depth, submit of a well-formed request
\* returns a queued job and appends it to the lane of its priority, whatever
\* the four signal deadlines are, and leaves the deadlines alone.
C19_SubmitDuringCooldown ==
    /\ [](~DepthFull =>
            \A request \in Requests :
               request.payload = ValidPayload =>
                  submitResult(request) =
                     [threw |-> "none", job_id |-> jobSeq + 1, status |-> "queued"])
    /\ [][ \A request \in Requests :
             (Submit(request) /\ ~DepthFull /\ request.payload = ValidPayload) =>
                LET lane == toPriority(request.priority) IN
                /\ jobSeq' = jobSeq + 1
                /\ lanes'[lane] = Append(lanes[lane], jobSeq + 1)
                /\ \A p \in LaneNames \ {lane} : lanes'[p] = lanes[p]
                /\ jobs'[jobSeq + 1].status = "queued"
                /\ totals'.submitted = totals.submitted + 1
                /\ signals' = signals
         ]_vars

\* C19 witness: max_queue_depth = 1; the first job failed with LOGIN_REQUIRED
\* on its only attempt, which started an auth cooldown that is still running;
\* the second job can only have been admitted after that failure, hence
\* during the cooldown, and waits in its lane.
C19_Witness ==
    /\ maxQueueDepth = 1
    /\ 1 \in DOMAIN results
    /\ results[1].error.code = "UPSTREAM_LOGIN_REQUIRED"
    /\ results[1].attempts = 1
    /\ signals.auth_required_until > now
    /\ 2 \in JobIds
    /\ jobs[2].status = "queued"
    /\ Holds(LaneOrder, 2)

TimedOut == [outcome |-> "rejected", value |-> "UPSTREAM_TIMEOUT"]

\* C20: a waiter timer is pending only while the job it waits for is not
\* terminal; when it fires, the caller is rejected with UPSTREAM_TIMEOUT and
\* the job is untouched: status, lanes, running set, cancelRequested (the whole
\* job map), result cache, signals, timers and metrics are unchanged; the
\* rejection stands, and the job is still finalized afterwards with a terminal
\* envelope in the result cache.
C20_WaiterTimeoutLeavesJob ==
    /\ [](\A c \in DOMAIN waiterTimers :
             /\ callers[c].outcome = "pending"
             /\ \E j \in JobIds : c \in Waiting(jobs[j]) /\ j \notin DOMAIN results)
    /\ [][ /\ \A c \in DOMAIN waiterTimers :
                 WaiterTimerFire(c) =>
                    /\ callers'[c] = TimedOut
                    /\ UNCHANGED <<jobs, lanes, running, results, signals, retryTimers,
                                   drainTimers, drainScheduled, totals, calls, jobSeq>>
           /\ \A c \in DOMAIN callers :
                 callers[c] = TimedOut =>
                    /\ callers'[c] = TimedOut
                    /\ \A j \in JobIds :
                          (c \in Waiting(jobs[j]) /\ jobs'[j].status # jobs[j].status
                             /\ jobs[j].status = "running"
                             /\ jobs'[j].status # "retrying") =>
                                /\ j \in DOMAIN results'
                                /\ results'[j].status \in FINAL_STATUSES
         ]_vars

\* C20 witness: the caller of the only job was rejected by its waiter timer,
\* and the job has completed after that.
C20_Witness ==
    /\ jobSeq = 1
    /\ Len(callers) = 1
    /\ callers[1] = TimedOut
    /\ 1 \in DOMAIN results
    /\ results[1].status = "completed"

\* The ids a client can ask about: every id issued so far and ids that are
\* never issued.
ProbedIds == 1..(MaxJobs + 1)

\* C23: for every job id and every state of the queue, GET /async/result/:jobId
\* answers 200 with the envelope exactly when the job's envelope is in the
\* result cache, 202 with {job_id, status} exactly when the job is known and
\* not yet terminal (queued, running or retrying), and 404 exactly when the id
\* was never issued.
C23_ResultRoute ==
    \A j \in ProbedIds :
       /\ resultRoute(j).http \in {200, 202, 404}
       /\ resultRoute(j).http = 200 <=> j \in DOMAIN results
       /\ resultRoute(j).http = 200 =>
             /\ resultRoute(j).job_id = results[j].job_id
             /\ resultRoute(j).status = results[j].status
       /\ resultRoute(j).http = 202 <=>
             /\ j \in 1..jobSeq
             /\ jobs[j].status \in {"queued", "running", "retrying"}
       /\ resultRoute(j).http = 202 =>
             /\ resultRoute(j).job_id = j
             /\ resultRoute(j).status = jobs[j].status
       /\ resultRoute(j).http = 404 <=> j \notin 1..jobSeq

\* C23 witness: job 1 has its envelope and is answered 200, job 2 waits for
\* its retry and is answered 202 with status retrying, and the id after the
\* last one issued is answered 404.
C23_Witness ==
    /\ jobSeq = 2
    /\ 1 \in DOMAIN results
    /\ resultRoute(1).http = 200
    /\ jobs[2].status = "retrying"
    /\ resultRoute(2) = [http |-> 202, job_id |-> 2, status |-> "retrying"]
    /\ resultRoute(3).http = 404

\* C24: each job is finalized exactly once: exactly one job.final event is
\* emitted per job that reaches a terminal status (and none for any other
\* job), at emission the envelope is already in the result cache, and the
\* result-cache entry of a job is written once and never replaced by any
\* later event (late upstream return, retry timer, cancel).
C24_FinalizedOnce ==
    /\ [](\A j \in JobIds :
            /\ finalEvents[j] = IF j \in DOMAIN results THEN 1 ELSE 0
            /\ jobs[j].status \in FINAL_STATUSES => finalEvents[j] = 1)
    /\ [][ /\ \A j \in JobIds :
                finalEvents'[j] > finalEvents[j] =>
                   /\ j \in DOMAIN results'
                   /\ results'[j].status = jobs'[j].status
           /\ \A j \in DOMAIN results :
                /\ j \in DOMAIN results'
                /\ results'[j] = results[j]
         ]_vars

\* C24 witness: job 1 was cancelled while it waited for its retry and the
\* retry timer has fired since; job 2 completed after a cancel request (a late
\* upstream return); each has exactly one job.final event.
C24_Witness ==
    /\ jobSeq = 2
    /\ DOMAIN results = {1, 2}
    /\ results[1].status = "cancelled"
    /\ results[1].attempts = 1
    /\ retryTimers = <<>>
    /\ results[2].status = "completed"
    /\ jobs[2].cancelRequested
    /\ finalEvents = <<1, 1>>

\* C25: submit raises INVALID_REQUEST when the payload is missing, is not an
\* object, lacks a model or lacks a messages sequence; it then creates no job
\* and leaves lanes, job map, sequence counter and metrics as they are; and
\* this check comes before the backpressure check, so it is INVALID_REQUEST
\* also while the queue is full.
C25_InvalidRequestFirst ==
    /\ [](\A request \in Requests :
            (\/ ~request.payload.present
             \/ ~request.payload.isObject
             \/ ~request.payload.hasModel
             \/ ~request.payload.messagesIsArray) =>
                submitResult(request) = [threw |-> "INVALID_REQUEST"])
    /\ [][ \A request \in Requests :
             (Submit(request) /\ request.payload # ValidPayload) =>
                UNCHANGED <<lanes, jobs, jobSeq, totals, results, running>>
         ]_vars

\* C25 witness: the queue is full (a well-formed request is rejected with
\* QUEUE_BACKPRESSURE) and each of the four malformed payloads is rejected
\* with INVALID_REQUEST.
C25_Witness ==
    /\ DepthFull
    /\ submitResult([payload |-> ValidPayload, priority |-> "batch"]).threw
          = "QUEUE_BACKPRESSURE"
    /\ \A p \in PayloadInputs \ {ValidPayload} :
          submitResult([payload |-> p, priority |-> "batch"]).threw = "INVALID_REQUEST"
    /\ Cardinality(PayloadInputs \ {ValidPayload}) = 4

\* C27: a job that fails retryably with attempts < max (and no cancel
\* request) gets status retrying, and until its timer fires it is in no lane
\* and not running; when the timer fires its status becomes queued and it is
\* appended to the retry lane, whatever its original priority.
C27_RetryPath ==
    /\ [](\A j \in JobIds :
            jobs[j].status = "retrying" =>
               /\ j \notin running
               /\ ~Holds(LaneOrder, j)
               /\ j \in DOMAIN retryTimers)
    /\ [][ /\ \A j \in running, error \in ErrorInputs :
                (/\ UpstreamThrow(j, error)
                 /\ classifyError(error).retryable
                 /\ jobs[j].attempts < retryPolicy.maxAttempts
                 /\ ~jobs[j].cancelRequested) =>
                    jobs'[j].status = "retrying"
           /\ \A j \in DOMAIN retryTimers :
                (RetryTimerFire(j) /\ jobs[j].status = "retrying") =>
                    /\ jobs'[j].status = "queued"
                    /\ lanes'.retry = Append(lanes.retry, j)
                    /\ lanes'.interactive = lanes.interactive
                    /\ lanes'.batch = lanes.batch
         ]_vars

\* C27 witness: a job of priority interactive and one of priority batch have
\* each failed once and come back: both are queued in the retry lane, in the
\* order in which their timers fired.
C27_Witness ==
    /\ jobSeq = 2
    /\ jobs[1].priority = "batch"
    /\ jobs[2].priority = "interactive"
    /\ \A j \in {1, 2} : jobs[j].status = "queued" /\ jobs[j].attempts = 1
    /\ Len(lanes.retry) = 2
    /\ lanes.interactive = <<>>
    /\ lanes.batch = <<>>

\* C28: if cancel is requested on a running job and the call then throws, the
\* job is finalized cancelled with JOB_CANCELLED (409), never failed and never
\* retried, even when the error is retryable and attempts < max; if the call
\* returns after the cancel request, the completed envelope is emitted.
C28_CancelRequestedOutcome ==
    /\ [](\A j \in JobIds :
            jobs[j].cancelRequested =>
               /\ jobs[j].status \in {"running", "cancelled", "completed"}
               /\ j \notin DOMAIN retryTimers
               /\ ~Holds(LaneOrder, j))
    /\ [][ \A j \in running :
             jobs[j].cancelRequested =>
                /\ \A error \in ErrorInputs :
                      UpstreamThrow(j, error) =>
                         /\ jobs'[j].status = "cancelled"
                         /\ results'[j].status = "cancelled"
                         /\ results'[j].error =
                               [code |-> "JOB_CANCELLED", status |-> 409,
                                retryable |-> FALSE]
                         /\ results'[j].attempts = jobs[j].attempts
                         /\ totals'.failed = totals.failed
                         /\ retryTimers' = retryTimers
                /\ UpstreamReturn(j) =>
                      /\ jobs'[j].status = "completed"
                      /\ results'[j].status = "completed"
                      /\ finalEvents'[j] = 1
         ]_vars

\* C28 witness: the only job was cancelled by request while running; its one
\* call threw a rate-limit error (retryable, and one attempt of two used),
\* which set the rate-limit deadline, and it was finalized cancelled.
C28_Witness ==
    /\ jobSeq = 1
    /\ jobs[1].cancelRequested
    /\ 1 \in DOMAIN results
    /\ results[1].status = "cancelled"
    /\ results[1].attempts = 1
    /\ retryPolicy.maxAttempts = 2
    /\ signals.rate_limited_until > 0
    /\ totals.failed = 0

\* C29: cancel is idempotent on a running job: every call while the job runs
\* returns {cancelled: true, running: true, status: "cancel_requested"}, the
\* first call only sets the job's cancel request, and a further call changes
\* nothing, so the state after two calls equals the state after one.
C29_CancelRunningIdempotent ==
    /\ [](\A j \in running :
            cancelResult(j) = [cancelled |-> TRUE, running |-> TRUE, job_id |-> j,
                               status |-> "cancel_requested"])
    /\ [][ \A j \in running :
             Cancel(j) =>
                /\ jobs' = [jobs EXCEPT ![j].cancelRequested = TRUE]
                /\ UNCHANGED <<lanes, running, results, signals, totals, retryTimers,
                               drainTimers, drainScheduled, calls, finalEvents, jobSeq>>
                /\ jobs[j].cancelRequested => UNCHANGED vars
         ]_vars

\* C29 witness: a job is running, a cancel was requested for it already, and
\* a further cancel answers cancel_requested again.
C29_Witness ==
    \E j \in running :
       /\ jobs[j].cancelRequested
       /\ jobs[j].status = "running"
       /\ cancelResult(j).status = "cancel_requested"
       /\ j \notin DOMAIN results

\* C30: cancelling a retrying job finalizes it at once as cancelled and
\* returns {cancelled: true, running: false, status: "cancelled"}; when the
\* pending retry timer fires later, the job is appended to no lane, its status
\* stays cancelled, and the upstream is never called for it again.
C30_CancelRetrying ==
    /\ [](\A j \in JobIds :
            jobs[j].status = "retrying" =>
               cancelResult(j) = [cancelled |-> TRUE, running |-> FALSE, job_id |-> j,
                                  status |-> "cancelled"])
    /\ [][ /\ \A j \in JobIds :
                (jobs[j].status = "retrying" /\ Cancel(j)) =>
                    /\ jobs'[j].status = "cancelled"
                    /\ results'[j].status = "cancelled"
                    /\ results'[j].error.code = "JOB_CANCELLED"
           /\ \A j \in JobIds :
                jobs[j].status = "cancelled" =>
                    /\ jobs'[j].status = "cancelled"
                    /\ ~Holds(lanes'.interactive \o lanes'.retry \o lanes'.batch, j)
                    /\ j \notin running'
                    /\ calls'[j] = calls[j]
           /\ \A j \in DOMAIN retryTimers :
                (jobs[j].status = "cancelled" /\ RetryTimerFire(j)) =>
                    UNCHANGED <<lanes, jobs, results, running, calls, drainScheduled>>
         ]_vars

\* C30 witness: a job was cancelled while it waited for its retry, its timer
\* is still pending, and cancel answers ALREADY_FINAL for it by now.
C30_Witness ==
    \E j \in DOMAIN retryTimers :
       /\ j \in DOMAIN results
       /\ results[j].status = "cancelled"
       /\ results[j].error.code = "JOB_CANCELLED"
       /\ results[j].attempts = 1
       /\ cancelResult(j).code = "ALREADY_FINAL"

\* C21: resolveSidecarState returns the first state that holds in the order
\* auth_required (auth deadline > now) > challenge > rate_limited > degraded
\* (connectivity not ok or degraded deadline > now) > ready, for every
\* combination of the four deadlines, now and connectivityOk.
C21_StatePrecedence ==
    probe.done =>
       LET arg == probe.arg
           auth == arg.signals.auth_required_until > arg.now
           challenge == arg.signals.challenge_until > arg.now
           rate == arg.signals.rate_limited_until > arg.now
           degraded == ~arg.connectivityOk \/ arg.signals.degraded_until > arg.now
           state == probe.out.state
       IN  /\ state = "auth_required" <=> auth
           /\ state = "challenge" <=> ~auth /\ challenge
           /\ state = "rate_limited" <=> ~auth /\ ~challenge /\ rate
           /\ state = "degraded" <=> ~auth /\ ~challenge /\ ~rate /\ degraded
           /\ state = "ready" <=> ~auth /\ ~challenge /\ ~rate /\ ~degraded

\* C21 witness: all four deadlines lie in the future and the connectivity
\* check failed; the function answered auth_required.
C21_Witness ==
    /\ probe.done
    /\ ~probe.arg.connectivityOk
    /\ probe.arg.signals.auth_required_until > probe.arg.now
    /\ probe.arg.signals.challenge_until > probe.arg.now
    /\ probe.arg.signals.rate_limited_until > probe.arg.now
    /\ probe.arg.signals.degraded_until > probe.arg.now
    /\ probe.out.state = "auth_required"

\* The claim's reading of the markers, on the texts as the error carries them.
LoginCodes == {"LOGIN_REQUIRED", "login_required"}
RateLimitTexts == {"Rate limit exceeded", "Rate limit: complete the challenge"}
ChallengeTexts == {"Just a moment...", "Challenge required", "Verify you are human",
                   "Rate limit: complete the challenge"}

\* C22: classifyError applies the seven rules in order with first match
\* winning, for every combination of error name, HTTP status, upstream code
\* and message markers: timeout => UPSTREAM_TIMEOUT/504/retryable; 401 or
\* LOGIN_REQUIRED => UPSTREAM_LOGIN_REQUIRED/401/not retryable; 429 or "rate
\* limit" => UPSTREAM_RATE_LIMITED/429/retryable; challenge markers =>
\* UPSTREAM_CHALLENGE/503/retryable; 500-599 => UPSTREAM_UNAVAILABLE/503/
\* retryable; 400-499 => UPSTREAM_BAD_RESPONSE/424/not retryable; anything
\* else => INTERNAL_ERROR/500/not retryable.
C22_SevenRules ==
    probe.done =>
       LET error == probe.arg IN
       probe.out =
          IF error.name = "TimeoutError"
          THEN [code |-> "UPSTREAM_TIMEOUT", status |-> 504, retryable |-> TRUE]
          ELSE IF error.statusCode = 401 \/ error.code \in LoginCodes
          THEN [code |-> "UPSTREAM_LOGIN_REQUIRED", status |-> 401, retryable |-> FALSE]
          ELSE IF error.statusCode = 429 \/ error.msg \in RateLimitTexts
          THEN [code |-> "UPSTREAM_RATE_LIMITED", status |-> 429, retryable |-> TRUE]
          ELSE IF error.msg \in ChallengeTexts
          THEN [code |-> "UPSTREAM_CHALLENGE", status |-> 503, retryable |-> TRUE]
          ELSE IF error.statusCode \in 500..599
          THEN [code |-> "UPSTREAM_UNAVAILABLE", status |-> 503, retryable |-> TRUE]
          ELSE IF error.statusCode \in 400..499
          THEN [code |-> "UPSTREAM_BAD_RESPONSE", status |-> 424, retryable |-> FALSE]
          ELSE [code |-> "INTERNAL_ERROR", status |-> 500, retryable |-> FALSE]

\* C26: when a reports directory is configured and a previous latest report
\* for the same replay name exists with a finite candidate_accuracy, a replay
\* run appends a drift alert of type accuracy_drop and level warn exactly when
\* current candidate_accuracy minus the previous one is <= -0.05; with no
\* previous report of that replay name, or a malformed one, no alert is added
\* and the run does not fail.
C26_DriftAlert ==
    [][ \A replayName \in ReplayNames, candidateAcc \in AccuracyInputs :
          (ReplayRun(replayName, candidateAcc) /\ probe.reportsDir) =>
             LET file == probe.files[safeName(replayName)]
                 wellFormed == /\ file.kind = "json"
                               /\ file.hasSummary
                               /\ file.acc.t = "number"
                 previousOfName == wellFormed /\ file.replay_name = replayName
                 alerts == probe'.report.drift_alerts
             IN  /\ probe'.report.replay_name = replayName
                 /\ probe'.report.candidate_accuracy = candidateAcc
                 /\ previousOfName =>
                       IF candidateAcc - file.acc.v <= -5
                       THEN /\ Len(alerts) = 1
                            /\ alerts[1].type = "accuracy_drop"
                            /\ alerts[1].level = "warn"
                       ELSE alerts = <<>>
                 /\ ~previousOfName => alerts = <<>>
      ]_vars

\* The drains that are scheduled and have not run: the pending setImmediate
\* and the pending cooldown timers, each of which schedules a drain.
PendingDrains == (IF drainScheduled THEN 1 ELSE 0) + BagCardinality(drainTimers)
GateDeadline == Max(Max(signals.auth_required_until, signals.challenge_until),
                    Max(signals.rate_limited_until, signals.degraded_until))

\* C31: drain scheduling is coalesced: at any time at most one drain is
\* scheduled and not yet run, including drains rescheduled by the cooldown
\* gate; a drain tick that finds the gate in the future reschedules one drain
\* at the gate deadline (at least 50 ms later) and starts no job.
C31_DrainCoalesced ==
    /\ [](PendingDrains <= 1)
    /\ [][ (DrainTick /\ GateDeadline > now) =>
              /\ drainTimers' = drainTimers (+)
                                   SetToBag({Max(GateDeadline, now + 50)})
              /\ UNCHANGED <<running, calls, jobs, lanes>>
         ]_vars

\* C32: submit never starts the upstream call itself: when submit returns,
\* the new job has status queued, attempts 0, is at the tail of the lane of
\* its priority and is not in the running set; a job is started, and the
\* upstream called, only in a drain tick.
C32_SubmitDoesNotDispatch ==
    [][ /\ \A request \in Requests :
             (Submit(request) /\ jobSeq' # jobSeq) =>
                LET id == jobSeq'
                    lane == toPriority(request.priority)
                IN  /\ jobs'[id].status = "queued"
                    /\ jobs'[id].attempts = 0
                    /\ Len(lanes'[lane]) > 0
                    /\ lanes'[lane][Len(lanes'[lane])] = id
                    /\ id \notin running'
                    /\ running' = running
                    /\ calls'[id] = 0
                    /\ \A j \in DOMAIN calls : calls'[j] = calls[j]
        /\ ((\E j \in DOMAIN calls : calls'[j] # calls[j]) \/ ~(running' \subseteq running))
              => DrainTick
      ]_vars

\* C32 witness: maxInFlight = 2 and nothing runs; two jobs were submitted to
\* the same lane and both wait there, in order, not started, with a drain
\* scheduled.
C32_Witness ==
    /\ maxInFlight = 2
    /\ running = {}
    /\ jobSeq = 2
    /\ lanes.interactive = <<1, 2>>
    /\ \A j \in {1, 2} : jobs[j].status = "queued" /\ jobs[j].attempts = 0 /\ calls[j] = 0
    /\ drainScheduled

\* The signal deadline that belongs to an error code, "none" for the codes
\* without a cooldown.
DeadlineOf(code) ==
    CASE code = "UPSTREAM_LOGIN_REQUIRED" -> "auth_required_until"
      [] code = "UPSTREAM_CHALLENGE" -> "challenge_until"
      [] code = "UPSTREAM_RATE_LIMITED" -> "rate_limited_until"
      [] code = "UPSTREAM_UNAVAILABLE" -> "degraded_until"
      [] OTHER -> "none"
DeadlineNames == {"auth_required_until", "challenge_until", "rate_limited_until",
                  "degraded_until"}

\* C33: a classified error changes at most the one signal deadline that
\* belongs to its code, and the codes without a cooldown (UPSTREAM_TIMEOUT,
\* UPSTREAM_BAD_RESPONSE, INTERNAL_ERROR) leave all four deadlines unchanged;
\* submit, cancel, dispatch and successful completion never change any
\* deadline.
C33_SignalFrame ==
    [][ /\ \A id \in running, error \in ErrorInputs :
             UpstreamThrow(id, error) =>
                /\ \A d \in DeadlineNames \ {DeadlineOf(classifyError(error).code)} :
                      signals'[d] = signals[d]
                /\ classifyError(error).code \in
                      {"UPSTREAM_TIMEOUT", "UPSTREAM_BAD_RESPONSE", "INTERNAL_ERROR"}
                         => signals' = signals
        /\ signals' # signals =>
              \E id \in running, error \in ErrorInputs : UpstreamThrow(id, error)
      ]_vars

\* C33 witness: one job failed with UPSTREAM_BAD_RESPONSE and one with
\* UPSTREAM_LOGIN_REQUIRED; only the auth deadline is set.
C33_Witness ==
    /\ DOMAIN results = {1, 2}
    /\ {results[1].error.code, results[2].error.code}
          = {"UPSTREAM_BAD_RESPONSE", "UPSTREAM_LOGIN_REQUIRED"}
    /\ signals.auth_required_until > 0
    /\ signals.challenge_until = 0
    /\ signals.rate_limited_until = 0
    /\ signals.degraded_until = 0

\* C34: each of the four signal deadlines is monotonic: over any sequence of
\* operations, with a non-decreasing clock, its value never decreases.
C34_DeadlinesMonotonic ==
    [][ /\ now' >= now
        /\ \A d \in DeadlineNames : signals'[d] >= signals[d]
      ]_vars

\* C34 witness: the challenge deadline was set at time 0 and the rate-limit
\* deadline one tick later; both stand.
C34_Witness ==
    /\ now = TickMs
    /\ signals.challenge_until = cooldowns.challengeMs
    /\ signals.rate_limited_until = TickMs + cooldowns.rateLimitedMs


\* C38: between any two event-loop callbacks a job is in the running set if
\* and only if its status is running, and it is in some lane if and only if
\* its status is queued.
C38_RunningAndLanes ==
    /\ running \subseteq DOMAIN jobs
    /\ \A p \in LaneNames : \A i \in 1..Len(lanes[p]) : lanes[p][i] \in DOMAIN jobs
    /\ \A j \in DOMAIN jobs :
          /\ (j \in running) <=> (jobs[j].status = "running")
          /\ (\E p \in LaneNames : InLane(p, j)) <=> (jobs[j].status = "queued")

\* C38 witness: job 1 runs with a cancel requested, job 2 came back from a
\* retry and waits in the retry lane.
C38_Witness ==
    /\ running = {1}
    /\ jobs[1].cancelRequested
    /\ jobSeq = 2
    /\ jobs[2].status = "queued"
    /\ jobs[2].attempts = 1
    /\ InLane("retry", 2)

\* C39: the metric totals are conserved: submitted equals completed + failed
\* + cancelled + the number of jobs that are not yet terminal; every total is
\* the number of cached envelopes of its status, so a job is counted once,
\* and only when it is finalized.
C39_TotalsConserved ==
    /\ totals.submitted = totals.completed + totals.failed + totals.cancelled
                          + Cardinality(DOMAIN jobs \ DOMAIN results)
    /\ totals.submitted = Cardinality(DOMAIN jobs)
    /\ totals.completed = Cardinality({j \in DOMAIN results : results[j].status = "completed"})
    /\ totals.failed = Cardinality({j \in DOMAIN results : results[j].status = "failed"})
    /\ totals.cancelled = Cardinality({j \in DOMAIN results : results[j].status = "cancelled"})

\* C39 witness: two jobs were admitted; one was cancelled while it ran and is
\* counted, the other waits for its retry and is counted nowhere yet.
C39_Witness ==
    /\ totals.submitted = 2
    /\ totals.cancelled = 1
    /\ totals.completed = 0
    /\ totals.failed = 0
    /\ \E j \in DOMAIN results : results[j].status = "cancelled" /\ results[j].attempts = 1
    /\ \E j \in DOMAIN jobs : jobs[j].status = "retrying"

\* C40: in the response of POST /async/cancel/:jobId the status is
\* cancel_requested only when the job was running at the time of the call and
\* cancelled only when the job was cancelled before dispatch; for a job that
\* is already terminal the response has ok = false and does not report
\* cancel_requested.
C40_CancelRouteStatus ==
    \A jobId \in ProbedIds :
        /\ cancelRoute(jobId).status = "cancel_requested" => jobId \in running
        /\ cancelRoute(jobId).status = "cancelled" =>
              /\ jobId \in DOMAIN jobs
              /\ jobId \notin running
              /\ jobId \notin DOMAIN results
        /\ jobId \in DOMAIN results =>
              /\ cancelRoute(jobId).ok = FALSE
              /\ cancelRoute(jobId).status # "cancel_requested"


\* C35: the delay before a retried job is re-enqueued after its n-th failed
\* attempt (n >= 1) is min(max_delay_ms, base_delay_ms * 2^(n-1)); it never
\* exceeds max_delay_ms and is non-decreasing in n.
C35_RetryDelay ==
    probe.fn = "retryDelay" =>
        LET max_delay_ms == retryPolicyOf(probe.options).maxDelayMs
            base_delay_ms == retryPolicyOf(probe.options).baseDelayMs
            delays == probe.delays
        IN  /\ \A n \in 1..Len(delays) :
                  /\ delays[n] = IF base_delay_ms * Pow2(n - 1) < max_delay_ms
                                 THEN base_delay_ms * Pow2(n - 1)
                                 ELSE max_delay_ms
                  /\ delays[n] <= max_delay_ms
            /\ \A n, k \in 1..Len(delays) : n <= k => delays[n] <= delays[k]

\* C35 witness: base 50 ms, cap 1500 ms, seven attempts allowed: the delays
\* double five times and the sixth is cut to the cap.
C35_Witness ==
    /\ probe.fn = "retryDelay"
    /\ probe.delays = <<50, 100, 200, 400, 800, 1500>>


\* The waiters observed for job j: the callers pushed to its waiters, in the
\* order of the push, and the calls made with an envelope of job j, in the
\* order of the calls.
RegisteredOn(j) == SelectSeq(probe.registered, LAMBDA r : r.job_id = j)
InvokedOf(j) == SelectSeq(probe.invoked, LAMBDA v : v.envelope.job_id = j)

\* C36: at finalization the waiters registered on a job are invoked in
\* registration order, each exactly once and each with the job's terminal
\* envelope; the envelope a waiter receives equals the one getResult returns
\* for that job afterwards, and waitForCompletion on an already terminal job
\* returns that same envelope without registering a waiter.
C36_WaitersInOrder ==
    probe.fn = "waiters" =>
        \A j \in DOMAIN jobs :
            IF j \in DOMAIN results
            THEN /\ Len(InvokedOf(j)) = Len(RegisteredOn(j))
                 /\ \A i \in 1..Len(InvokedOf(j)) :
                       /\ InvokedOf(j)[i].waiter = RegisteredOn(j)[i].waiter
                       /\ InvokedOf(j)[i].envelope = getResult(j).envelope
                 /\ getResult(j).found
                 /\ getResult(j).envelope.status \in FINAL_STATUSES
                 /\ jobs[j].waiters = <<>>
                 /\ waitResult(j) = [outcome |-> "resolved", value |-> getResult(j).envelope]
                 /\ waitBranch(j) = "done"
            ELSE InvokedOf(j) = <<>>

\* C36 witness: two callers waited for job 1, the first timed out before the
\* job was finalized; both were invoked, in the order they registered, with
\* the envelope in the result cache.
C36_Witness ==
    /\ probe.fn = "waiters"
    /\ 1 \in DOMAIN results
    /\ Len(probe.registered) = 2
    /\ Len(probe.invoked) = 2
    /\ probe.invoked[1].waiter = 1
    /\ probe.invoked[2].waiter = 2
    /\ callers[1].outcome = "rejected"
    /\ callers[2].outcome = "resolved"


\* A job is admitted and not terminal / terminal with its envelope cached.
Pending(j) == j \in DOMAIN jobs /\ j \notin DOMAIN results
Terminal(j) ==
    /\ j \in DOMAIN results
    /\ jobs[j].status \in FINAL_STATUSES
    /\ results[j].status = jobs[j].status
\* A step that admits no job.
NoAdmission == \A j \in 1..MaxJobs : Pending(j)' => Pending(j)

\* C37 as stated: under fairness (every upstream call eventually returns or
\* throws, every timer eventually fires, time advances past every cooldown
\* deadline) every admitted job eventually reaches a terminal status with its
\* envelope in the result cache.
C37_EveryJobTerminates ==
    \A j \in 1..MaxJobs : Pending(j) ~> Terminal(j)

\* C37 amended: the same, provided that from some time on no further job is
\* admitted.
C37_TerminatesOnceSubmissionsEnd ==
    (<>[][NoAdmission]_vars) => (\A j \in 1..MaxJobs : Pending(j) ~> Terminal(j))

\* C37 witness: a job that failed once, waited for its retry timer behind a
\* rate-limit cooldown and was started again has completed on its second
\* attempt.
C37_Witness ==
    \E j \in DOMAIN results :
        /\ results[j].status = "completed"
        /\ results[j].attempts = 2
        /\ signals.rate_limited_until = 0
        /\ totals.submitted = 2

====
